---------------------------- MODULE Spec2Model ----------------------------
(***************************************************************************)
(* Model of the expandybird template expansion engine.                     *)
(*                                                                         *)
(*   - reference engine   src/expandybird/expansion/references.py          *)
(*   - expansion driver   src/expandybird/expansion/expansion.py           *)
(*                                                                         *)
(* Python strings are sequences of one-character strings, so that the      *)
(* regular expressions, the parenthesis scan and str.replace work on       *)
(* characters as the code does.  YAML values are tagged records:           *)
(*   [t |-> "str", s |-> chars]   [t |-> "int", i |-> n]   [t |-> "null"]  *)
(*   [t |-> "list", l |-> seq]    [t |-> "map", m |-> function]            *)
(***************************************************************************)
EXTENDS Integers, Sequences, FiniteSets, TLC

VARIABLES
    \* ---- expansion driver (expansion.py) ----
    pc,              \* position of the Expand call: "start", "walk", "done", "idle"
    yaml_config,     \* the root document as yaml.safe_load returns it
    imports,         \* the imports argument
    outputs,         \* the outputs argument
    validate_schema, \* the validate_schema argument
    stack,           \* active _Expand/_ProcessResource frames, innermost last
    result,          \* what Expand returned or raised
    \* ---- reference engine (references.py) ----
    rpc,             \* position of _TraverseNode on a string: "scan", "returned", "raised", "idle"
    node,            \* the string being traversed (as rewritten so far)
    node0,           \* the string as passed in
    segs,            \* how node0 was written: text pieces and references
    rm,              \* the ReferenceMatcher: content, name, path
    list_references, \* the collector of (name, path) pairs
    output_map,      \* the output map, or None
    error,           \* the exception in flight (raised and not yet caught), or None
    \* ---- schema validation (schema_validation.py) ----
    vpc,             \* position of Validate: "start", "checked", "defaulted", "returned", "raised", "idle"
    user_properties, \* the properties dict, which the default setter changes in place
    properties0,     \* the properties as passed in
    errors,          \* the errors list of Validate
    order,           \* the order in which dicts give their keys
    \* ---- sandbox loader (sandbox_loader.py), over the calls of one process ----
    calls,           \* the number of Expand calls that redirected so far
    call_imports,    \* the imports of the call that is running, or None
    _IMPORTS,        \* module name -> content, or None for a package
    sys_modules,     \* sys.modules: module name -> the module registered
    resolved,        \* what the last import statement of template code got
    \* ---- single calls of the helpers ----
    ref_value,       \* what _ExtractWithJsonPath returned
    driver,          \* the driver that runs: "expandybird" or "expansion"
    invocations,     \* the Expand invocations that run in one process at once
    params,          \* the resource ExpandTemplate holds and hands to the template
    evaluation_context, \* what the template code was given to see
    permuted         \* the document with its references in the other order

vars == <<pc, yaml_config, imports, outputs, validate_schema, stack, result,
          rpc, node, node0, segs, rm, list_references, output_map, error,
          vpc, user_properties, properties0, errors, order,
          calls, call_imports, _IMPORTS, sys_modules, resolved,
          ref_value, driver, invocations, params, evaluation_context, permuted>>

expandVars == <<pc, yaml_config, imports, outputs, validate_schema, stack, result>>
refVars == <<rpc, node, node0, segs, rm, list_references, output_map, error>>
valVars == <<vpc, user_properties, properties0, errors, order>>
sandboxVars == <<calls, call_imports, _IMPORTS, sys_modules, resolved>>
templateVars == <<params, evaluation_context>>
permuteVars == <<permuted>>
auxVars == <<ref_value, driver, invocations, templateVars, permuteVars>>

None == [t |-> "null"]

\* -------------------------------------------------------------------------
\* Bounds
\* -------------------------------------------------------------------------
MaxSegs == 2        \* pieces (texts, references) a traversed string is written from

\* -------------------------------------------------------------------------
\* Strings
\* -------------------------------------------------------------------------
StrV(chars) == [t |-> "str", s |-> chars]
IntV(n) == [t |-> "int", i |-> n]
ListV(seq) == [t |-> "list", l |-> seq]
MapV(f) == [t |-> "map", m |-> f]

\* s[i:] of Python on 1-based positions: From(s, i) keeps s[i..]
From(s, i) == SubSeq(s, i, Len(s))

Min(S) == CHOOSE i \in S : \A j \in S : i <= j
MinOrZero(S) == IF S = {} THEN 0 ELSE Min(S)

StartsAt(s, pat, i) ==
    /\ i >= 1
    /\ i + Len(pat) - 1 <= Len(s)
    /\ SubSeq(s, i, i + Len(pat) - 1) = pat

\* str.find: the first position >= from at which pat occurs, 0 when none
Find(s, pat, from) == MinOrZero({i \in from..Len(s) : StartsAt(s, pat, i)})

Contains(s, pat) == Find(s, pat, 1) # 0

EndsWith(s, suffix) ==
    /\ Len(suffix) <= Len(s)
    /\ SubSeq(s, Len(s) - Len(suffix) + 1, Len(s)) = suffix

\* str.replace(old, new) for a non-empty old: every non-overlapping occurrence,
\* left to right; p is the first occurrence of old in s
RECURSIVE ReplaceFrom(_, _, _, _)
ReplaceFrom(s, old, new, p) ==
    IF p = 0 THEN s
    ELSE SubSeq(s, 1, p - 1) \o new
           \o ReplaceFrom(From(s, p + Len(old)), old, new,
                          Find(From(s, p + Len(old)), old, 1))

Replace(s, old, new) == ReplaceFrom(s, old, new, Find(s, old, 1))

\* -------------------------------------------------------------------------
\* references.py
\* -------------------------------------------------------------------------
\* REF_PREFIX_PATTERN = re.compile(r'\$\(ref\.'), as the text it matches
REF_PREFIX_PATTERN == <<"$", "(", "r", "e", "f", ".">>

\* '.' of a regular expression matches every character but the newline
NoNewline(s, i, j) == \A k \in i..j : s[k] # "\n"

\* The ends of group 1 that REF_PATTERN = r'\$\(ref\.(.*?)\.(.*)\)' admits for
\* a match starting at s: the positions e of a '.' that closes the name, with
\* a ')' somewhere after it, name and tail each within one line.
RefPatternEnds(content, s) ==
    {e \in (s + Len(REF_PREFIX_PATTERN))..Len(content) :
        /\ content[e] = "."
        /\ NoNewline(content, s + Len(REF_PREFIX_PATTERN), e - 1)
        /\ \E q \in (e + 1)..Len(content) :
              content[q] = ")" /\ NoNewline(content, e + 1, q - 1)}

\* the match that starts at s (0: re.search returns None); the name being
\* lazy, group 1 ends at the nearest end
RefPatternMatch(content, s) ==
    IF s = 0 THEN [found |-> FALSE, start |-> 0, end1 |-> 0]
    ELSE [found |-> TRUE, start |-> s, end1 |-> Min(RefPatternEnds(content, s))]

\* REF_PATTERN.search(content): the leftmost start at which the pattern matches
REF_PATTERN_search(content) ==
    RefPatternMatch(content,
                    MinOrZero({s \in 1..Len(content) :
                                  /\ StartsAt(content, REF_PREFIX_PATTERN, s)
                                  /\ RefPatternEnds(content, s) # {}}))

\* _BuildReference(name, path): '$(ref.%s.%s)' % (name, path)
BuildReference(name, path) ==
    REF_PREFIX_PATTERN \o name \o <<".">> \o path \o <<")">>

\* ExpansionReferenceError(reference, message); its message is
\* message + ' Reference: ' + str(reference)
ExpansionReferenceError(reference, message) ==
    [type |-> "ExpansionReferenceError",
     message |-> [text |-> message, reference |-> reference]]

\* A scan that stops at the first ')' whatever the nesting, as a greedy-free
\* regular expression alone would.
ScanParensFirstClose(content, i, open_group) ==
    MinOrZero({j \in i..Len(content) : content[j] = ")"})

\* The loop of FindReference over the characters from end_name on: the
\* position at which open_group reaches 0, or 0 when it never does.
RECURSIVE ScanParens(_, _, _)
ScanParens(content, i, open_group) ==
    IF i > Len(content) THEN 0
    ELSE IF content[i] = "("
         THEN ScanParens(content, i + 1, open_group + 1)
    ELSE IF content[i] = ")"
         THEN IF open_group = 1 THEN i ELSE ScanParens(content, i + 1, open_group - 1)
    ELSE ScanParens(content, i + 1, open_group)

\* ReferenceMatcher(content); name and path, None until a reference is
\* found, are written as empty strings
ReferenceMatcher(content) == [content |-> content, name |-> <<>>, path |-> <<>>]

\* A FindReference that leaves the content where it was.
FindReferenceEndKeeps(m, match, end_ref) ==
    IF end_ref = 0
    THEN [ret |-> "raise", rm |-> m,
          exc |-> ExpansionReferenceError(m.content, "Malformed reference.")]
    ELSE [ret |-> "True",
          rm |-> [content |-> m.content,
                  name |-> SubSeq(m.content, match.start + Len(REF_PREFIX_PATTERN),
                                  match.end1 - 1),
                  path |-> SubSeq(m.content, match.end1 + 1, end_ref - 1)],
          exc |-> None]

\* FindReference once the parentheses are counted: end_name is the position
\* of the '.' that ends the name (match.end(1)), end_ref that of the ')'
\* that closes the reference (0: open_group != 0 after the loop)
FindReferenceEnd(m, match, end_ref) ==
    IF end_ref = 0
    THEN [ret |-> "raise", rm |-> m,
          exc |-> ExpansionReferenceError(m.content, "Malformed reference.")]
    ELSE [ret |-> "True",
          rm |-> [content |-> From(m.content, end_ref),
                  name |-> SubSeq(m.content, match.start + Len(REF_PREFIX_PATTERN),
                                  match.end1 - 1),
                  path |-> SubSeq(m.content, match.end1 + 1, end_ref - 1)],
          exc |-> None]

\* A FindReference that answers False where no reference-shaped match is
\* found.
FindReferenceMatchSilent(m, match) ==
    IF ~match.found
    THEN [ret |-> "False", rm |-> m, exc |-> None]
    ELSE FindReferenceEnd(m, match, ScanParens(m.content, match.end1, 1))

\* FindReference once REF_PATTERN is searched
FindReferenceMatch(m, match) ==
    IF ~match.found
    THEN [ret |-> "raise", rm |-> m,
          exc |-> ExpansionReferenceError(m.content, "Malformed reference.")]
    ELSE FindReferenceEnd(m, match, ScanParens(m.content, match.end1, 1))

\* ReferenceMatcher.FindReference on the matcher m: what it returns ("True",
\* "False") or that it raised ("raise"), and the matcher afterwards
FindReference(m) ==
    IF Find(m.content, REF_PREFIX_PATTERN, 1) = 0
    THEN [ret |-> "False", rm |-> m, exc |-> None]
    ELSE FindReferenceMatch(m, REF_PATTERN_search(m.content))

\* -------------------------------------------------------------------------
\* jsonpath.jsonpath(obj, path), the library call of _ExtractWithJsonPath, for
\* the paths made of dotted keys, [n] and [*] (references_test.py, the
\* testExtract* cases).  A step is a key, an index or the wildcard.
\* -------------------------------------------------------------------------
DigitValue(c) == CASE c = "0" -> 0 [] c = "1" -> 1 [] c = "2" -> 2 [] c = "3" -> 3
                   [] OTHER -> -1

\* the end of the key that starts at i: the position before the next '.' or '['
KeyEnd(p, i) ==
    MinOrZero({j \in (i + 1)..(Len(p) + 1) : j = Len(p) + 1 \/ p[j] \in {".", "["}}) - 1

RECURSIVE PathSteps(_, _)
PathKey(p, i, e) ==
    <<[k |-> "key", s |-> SubSeq(p, i, e)]>> \o PathSteps(p, e + 1)

PathSteps(p, i) ==
    IF i > Len(p) THEN <<>>
    ELSE IF p[i] = "." THEN PathSteps(p, i + 1)
    ELSE IF p[i] = "["
         THEN IF i + 2 <= Len(p) /\ p[i + 2] = "]" /\ (p[i + 1] = "*" \/ DigitValue(p[i + 1]) >= 0)
              THEN <<IF p[i + 1] = "*" THEN [k |-> "star"]
                     ELSE [k |-> "index", i |-> DigitValue(p[i + 1])]>>
                      \o PathSteps(p, i + 3)
              ELSE <<[k |-> "bad"]>>
    ELSE PathKey(p, i, KeyEnd(p, i))

\* the keys of a dict in the order the iteration visits them
Pick(S) == CHOOSE x \in S : TRUE

RECURSIVE SetToSeq(_)
SetToSeq(S) == IF S = {} THEN <<>>
               ELSE <<Pick(S)>> \o SetToSeq(S \ {Pick(S)})

\* The values the steps select in val, in order; raised when an index equal to
\* the length of a list is read (IndexError, testExtractFail_BadIndex).
RECURSIVE JsonPathTrace(_, _)
RECURSIVE JsonPathTraceAll(_, _)
JsonPathJoin(h, r) ==
    IF h.raised \/ r.raised THEN [raised |-> TRUE, vals |-> <<>>]
    ELSE [raised |-> FALSE, vals |-> h.vals \o r.vals]

JsonPathTraceAll(steps, vals) ==
    IF vals = <<>> THEN [raised |-> FALSE, vals |-> <<>>]
    ELSE JsonPathJoin(JsonPathTrace(steps, Head(vals)),
                      JsonPathTraceAll(steps, Tail(vals)))

JsonPathStep(st, val) ==
    CASE st.k = "key" /\ val.t = "map" /\ st.s \in DOMAIN val.m ->
           [raised |-> FALSE, vals |-> <<val.m[st.s]>>]
      [] st.k = "index" /\ val.t = "list" /\ Len(val.l) > st.i ->
           [raised |-> FALSE, vals |-> <<val.l[st.i + 1]>>]
      [] st.k = "index" /\ val.t = "list" /\ Len(val.l) = st.i ->
           [raised |-> TRUE, vals |-> <<>>]
      [] st.k = "star" /\ val.t = "list" ->
           [raised |-> FALSE, vals |-> val.l]
      [] OTHER -> [raised |-> FALSE, vals |-> <<>>]

JsonPathNext(steps, sel) ==
    IF sel.raised THEN sel ELSE JsonPathTraceAll(Tail(steps), sel.vals)

JsonPathTrace(steps, val) ==
    IF steps = <<>> THEN [raised |-> FALSE, vals |-> <<val>>]
    ELSE JsonPathNext(steps, JsonPathStep(Head(steps), val))

JsonPathResult(tr) ==
    IF tr.raised THEN [k |-> "raise", l |-> <<>>, message |-> "list index out of range"]
    ELSE IF tr.vals = <<>> THEN [k |-> "False", l |-> <<>>, message |-> ""]
    ELSE [k |-> "list", l |-> tr.vals, message |-> ""]

\* jsonpath.jsonpath(obj, path): the list of the values found ("list"), False
\* when there is none ("False"), or the exception it raised ("raise")
JsonPath(obj, path) ==
    IF path = <<>> \/ obj.t # "map" \/ DOMAIN obj.m = {}
    THEN [k |-> "False", l |-> <<>>, message |-> ""]
    ELSE JsonPathResult(JsonPathTrace(PathSteps(path, 1), obj))

\* An extraction that returns None where the code raises (raise_exception
\* taken as False).
ExtractResultSilent(res, name, path, raise_exception) ==
    IF res.k = "list"
    THEN [raised |-> FALSE, exc |-> None,
          value |-> IF Len(res.l) = 1 THEN res.l[1] ELSE ListV(res.l)]
    ELSE [raised |-> FALSE, value |-> None, exc |-> None]

\* _ExtractWithJsonPath once jsonpath has answered res
ExtractResult(res, name, path, raise_exception) ==
    IF res.k = "list"
    THEN [raised |-> FALSE, exc |-> None,
          value |-> IF Len(res.l) = 1 THEN res.l[1] ELSE ListV(res.l)]
    ELSE IF raise_exception
    THEN [raised |-> TRUE, value |-> None,
          exc |-> ExpansionReferenceError(
                      BuildReference(name, path),
                      IF res.k = "raise" THEN res.message ELSE "No value found.")]
    ELSE [raised |-> FALSE, value |-> None, exc |-> None]

\* _ExtractWithJsonPath(ref_obj, name, path, raise_exception): the value, or
\* the ExpansionReferenceError raised
ExtractWithJsonPath(ref_obj, name, path, raise_exception) ==
    ExtractResult(JsonPath(ref_obj, path), name, path, raise_exception)

TraverseOutcome(status, m, n, refs, exc) ==
    [status |-> status, rm |-> m, node |-> n, list_references |-> refs, exc |-> exc]

\* "if value is not None: node = node.replace(_BuildReference(...), value)";
\* str.replace raises TypeError when value is not a string
TraverseReplace(n, m, refs, ex) ==
    IF ex.raised THEN TraverseOutcome("raised", m, n, refs, ex.exc)
    ELSE IF ex.value.t = "null" THEN TraverseOutcome("continue", m, n, refs, None)
    ELSE IF ex.value.t = "str"
    THEN TraverseOutcome("continue", m,
                         Replace(n, BuildReference(m.name, m.path), ex.value.s),
                         refs, None)
    ELSE TraverseOutcome("raised", m, n, refs,
                         [type |-> "TypeError",
                          message |-> [text |-> "expected a character buffer object"]])

\* the body of the loop "while rm.FindReference():", fr being what
\* FindReference answered
TraverseFoundReference(st, omap, fr, refs) ==
    IF omap.t = "null" THEN TraverseOutcome("continue", fr.rm, st.node, refs, None)
    ELSE IF fr.rm.name \notin DOMAIN omap.m
    THEN TraverseOutcome("continue", fr.rm, st.node, refs, None)
    ELSE TraverseReplace(st.node, fr.rm, refs,
                         ExtractWithJsonPath(omap.m[fr.rm.name], fr.rm.name,
                                             fr.rm.path, TRUE))

TraverseAnswer(st, omap, fr) ==
    CASE fr.ret = "False" ->
           TraverseOutcome("returned", fr.rm, st.node, st.list_references, None)
      [] fr.ret = "raise" ->
           TraverseOutcome("raised", fr.rm, st.node, st.list_references, fr.exc)
      [] OTHER ->
           TraverseFoundReference(
               st, omap, fr,
               IF st.list_references.t = "null" THEN st.list_references
               ELSE ListV(Append(st.list_references.l, <<fr.rm.name, fr.rm.path>>)))

\* One pass of the loop "while rm.FindReference():" of _TraverseNode over a
\* string node, st = [rm, node, list_references]: the loop goes on
\* ("continue"), ends ("returned") or an exception leaves it ("raised").
TraverseStep(st, omap) == TraverseAnswer(st, omap, FindReference(st.rm))

\* the whole loop on a string
RECURSIVE TraverseLoop(_, _)
TraverseLoopNext(nx, omap) ==
    IF nx.status = "continue"
    THEN TraverseLoop([rm |-> nx.rm, node |-> nx.node,
                       list_references |-> nx.list_references], omap)
    ELSE nx

TraverseLoop(st, omap) == TraverseLoopNext(TraverseStep(st, omap), omap)

\* _TraverseNode(node, list_references, output_map) with list_references None:
\* [raised, exc, node]
RECURSIVE TraverseNode(_, _)
RECURSIVE TraverseSeq(_, _)
RECURSIVE TraverseKeys(_, _, _)
TraverseSeqTail(l, h, r) ==
    IF r.raised THEN [raised |-> TRUE, exc |-> r.exc, l |-> l]
    ELSE [raised |-> FALSE, exc |-> None, l |-> <<h.node>> \o r.l]

TraverseSeqHead(l, h, omap) ==
    IF h.raised THEN [raised |-> TRUE, exc |-> h.exc, l |-> l]
    ELSE TraverseSeqTail(l, h, TraverseSeq(Tail(l), omap))

TraverseSeq(l, omap) ==
    IF l = <<>> THEN [raised |-> FALSE, exc |-> None, l |-> <<>>]
    ELSE TraverseSeqHead(l, TraverseNode(Head(l), omap), omap)

TraverseKeysHead(m, keys, h, omap) ==
    IF h.raised THEN [raised |-> TRUE, exc |-> h.exc, m |-> m]
    ELSE TraverseKeys([m EXCEPT ![Head(keys)] = h.node], Tail(keys), omap)

TraverseKeys(m, keys, omap) ==
    IF keys = <<>> THEN [raised |-> FALSE, exc |-> None, m |-> m]
    ELSE TraverseKeysHead(m, keys, TraverseNode(m[Head(keys)], omap), omap)

TraversedMap(r) == [raised |-> r.raised, exc |-> r.exc, node |-> MapV(r.m)]
TraversedList(r) == [raised |-> r.raised, exc |-> r.exc, node |-> ListV(r.l)]
TraversedStr(r) == [raised |-> r.status = "raised", exc |-> r.exc, node |-> StrV(r.node)]

TraverseNode(n, omap) ==
    CASE n.t = "map" -> TraversedMap(TraverseKeys(n.m, SetToSeq(DOMAIN n.m), omap))
      [] n.t = "list" -> TraversedList(TraverseSeq(n.l, omap))
      [] n.t = "str" ->
           TraversedStr(TraverseLoop([rm |-> ReferenceMatcher(n.s), node |-> n.s,
                                      list_references |-> None], omap))
      [] OTHER -> [raised |-> FALSE, exc |-> None, node |-> n]

\* PopulateReferences(node, output_map)
PopulateReferences(n, omap) == TraverseNode(n, omap)

\* -------------------------------------------------------------------------
\* expansion.py: errors and the outcome of Expand
\* -------------------------------------------------------------------------
\* what str(resource) is taken of, in ExpansionError(resource, message)
OfText(v) == [k |-> "text", v |-> v]
OfChars(c) == [k |-> "chars", c |-> c]
OfDict(d) == [k |-> "dict", d |-> d]

Msg(text) == [text |-> text]

\* ExpansionError(resource, message); its message is
\* message + ' Resource: ' + str(resource)
ExpansionError(resource, message) ==
    [type |-> "ExpansionError", message |-> [msg |-> message, resource |-> resource]]

NoResult == [k |-> "none"]
Returned(v) == [k |-> "returned", value |-> v]
Raised(e) == [k |-> "raised", exc |-> e]

\* An Expand that lets the exception through as it is.
ExpandExceptBare(e) == Raised(e)

\* Expand: "except Exception as e: raise ExpansionError('config', str(e))"
ExpandExcept(e) == Raised(ExpansionError(OfText("config"), e.message))

\* the outcome of a call: it returned v, or it raised e
Ok(v) == [raised |-> FALSE, exc |-> None, v |-> v]
Raise(e) == [raised |-> TRUE, exc |-> e, v |-> None]

\* 'config', the template_name _ValidateUniqueNames is given for the root list
ConfigName == <<"c", "o", "n", "f", "i", "g">>

\* the keys of an item of an outputs list
KeyName == <<"n", "a", "m", "e">>
KeyValue == <<"v", "a", "l", "u", "e">>

\* a document yaml.safe_load returned as a dict: d holds 'resources' (a list,
\* or None) and 'outputs' when the document has them
DocV(d) == [t |-> "doc", d |-> d]

\* "if imports": neither None nor empty
ImportsTruthy(imps) == imps.t = "map" /\ DOMAIN imps.m # {}

\* sandbox_loader.FileAccessRedirector.redirect(imports): process_imports
\* reads imports[k]['path'] of every entry, which a string entry does not have
Redirect(imps) ==
    IF imps.t = "map" /\ \E k \in DOMAIN imps.m : ~imps.m[k].dict
    THEN [type |-> "TypeError",
          message |-> Msg("string indices must be integers, not str")]
    ELSE None

\* _ValidateUniqueNames(template_resources, template_name) from the i-th
\* resource on, names being the names seen: the exception raised, or None
RECURSIVE ValidateUniqueNamesFrom(_, _, _, _)
ValidateUniqueNamesFrom(template_resources, i, names, template_name) ==
    IF i > Len(template_resources) THEN None
    ELSE IF "name" \notin DOMAIN template_resources[i]
    THEN ValidateUniqueNamesFrom(template_resources, i + 1, names, template_name)
    ELSE IF template_resources[i].name \in names
    THEN ExpansionError(OfDict(template_resources[i]),
                        [text |-> "Resource name is not unique.",
                         name |-> template_resources[i].name,
                         scope |-> template_name])
    ELSE ValidateUniqueNamesFrom(template_resources, i + 1,
                                 names \cup {template_resources[i].name},
                                 template_name)

\* A validation that reports every list as 'config'.
ValidateUniqueNamesAsConfig(template_resources, template_name) ==
    ValidateUniqueNamesFrom(template_resources, 1, {}, ConfigName)

ValidateUniqueNames(template_resources, template_name) ==
    ValidateUniqueNamesFrom(template_resources, 1, {}, template_name)

\* IsTemplate(resource_type)
IsTemplate(resource_type) ==
    EndsWith(resource_type, <<".", "p", "y">>)
        \/ EndsWith(resource_type, <<".", "j", "i", "n", "j", "a">>)

\* the output_value_map of _BuildOutputMap for one outputs list
RECURSIVE OutputValueMap(_)
OutputValueMap(outs) ==
    IF outs = <<>> THEN <<>>
    ELSE (outs[Len(outs)].m[KeyName].s :> outs[Len(outs)].m[KeyValue])
           @@ OutputValueMap(SubSeq(outs, 1, Len(outs) - 1))

\* _BuildOutputMap(resource_objs): template name -> output name -> value,
\* as the function it is
RECURSIVE BuildOutputMapFn(_)
BuildOutputMapFn(resource_objs) ==
    IF resource_objs = <<>> THEN <<>>
    ELSE IF "outputs" \notin DOMAIN resource_objs[Len(resource_objs)]
    THEN BuildOutputMapFn(SubSeq(resource_objs, 1, Len(resource_objs) - 1))
    ELSE (resource_objs[Len(resource_objs)].name
              :> MapV(OutputValueMap(resource_objs[Len(resource_objs)].outputs)))
           @@ BuildOutputMapFn(SubSeq(resource_objs, 1, Len(resource_objs) - 1))

\* An output map of the resources and of the resources below them.
RECURSIVE NestedLayouts(_)
NestedLayouts(resource_objs) ==
    IF resource_objs = <<>> THEN <<>>
    ELSE (IF "resources" \in DOMAIN Head(resource_objs)
          THEN Head(resource_objs).resources ELSE <<>>)
             \o NestedLayouts(Tail(resource_objs))

BuildOutputMapDeep(resource_objs) ==
    MapV(BuildOutputMapFn(resource_objs \o NestedLayouts(resource_objs)))

\* An output map of the first resource alone.
BuildOutputMapOfFirst(resource_objs) ==
    MapV(BuildOutputMapFn(IF resource_objs = <<>> THEN <<>> ELSE <<Head(resource_objs)>>))

BuildOutputMap(resource_objs) == MapV(BuildOutputMapFn(resource_objs))

\* An output map that never counts as empty.
OutputMapNeverFalsy(omap) == FALSE

\* "if not output_map"
OutputMapFalsy(omap) == omap.t = "null" \/ DOMAIN omap.m = {}

\* _ResolveOutputs(outputs, output_map): the outputs list, or the exception
ResolvedOutputs(tr) == IF tr.raised THEN Raise(tr.exc) ELSE Ok(tr.l)

ResolveOutputs(outs, omap) ==
    IF OutputMapFalsy(omap) THEN Ok(outs)
    ELSE ResolvedOutputs(TraverseSeq(outs, omap))

\* _ResolveResources(resource_objs, output_map): the resource list, or the
\* exception
RECURSIVE ResolveResourcesFrom(_, _)
ResolveResourcesTail(resource, rest) ==
    IF rest.raised THEN rest ELSE Ok(<<resource>> \o rest.v)

ResolveResourcesHead(resource_objs, tr, omap) ==
    IF tr.raised THEN Raise(tr.exc)
    ELSE ResolveResourcesTail([Head(resource_objs) EXCEPT !.properties = tr.node],
                              ResolveResourcesFrom(Tail(resource_objs), omap))

ResolveResourcesFrom(resource_objs, omap) ==
    IF resource_objs = <<>> THEN Ok(<<>>)
    ELSE IF "properties" \notin DOMAIN Head(resource_objs)
    THEN ResolveResourcesTail(Head(resource_objs),
                              ResolveResourcesFrom(Tail(resource_objs), omap))
    ELSE ResolveResourcesHead(resource_objs,
                              PopulateReferences(Head(resource_objs).properties, omap),
                              omap)

ResolveResources(resource_objs, omap) ==
    IF OutputMapFalsy(omap) THEN Ok(resource_objs)
    ELSE ResolveResourcesFrom(resource_objs, omap)

\* _ProcessTargetConfig(target, outputs, config, layout), config being
\* config['resources']: config and layout afterwards, or the exception
TargetConfigResources(outs, config, layout, omap, rr) ==
    IF rr.raised THEN rr ELSE Ok([config |-> rr.v, layout |-> layout])

TargetConfigOutputs(outs, config, layout, omap, ro) ==
    IF ro.raised THEN ro
    ELSE TargetConfigResources(
             outs, config,
             IF ro.v = <<>> THEN layout ELSE [outputs |-> ro.v] @@ layout,
             omap,
             IF config # <<>> THEN ResolveResources(config, omap) ELSE Ok(config))

\* A _ProcessTargetConfig that wires whatever the outputs argument says.
TargetConfigMappedAlways(target, outs, config, layout, omap) ==
    TargetConfigOutputs(
        outs, config, layout, omap,
        IF "outputs" \in DOMAIN target /\ target.outputs # <<>>
        THEN ResolveOutputs(target.outputs, omap) ELSE Ok(<<>>))

TargetConfigMapped(target, outs, config, layout, omap) ==
    IF ~outs THEN Ok([config |-> config, layout |-> layout])
    ELSE TargetConfigOutputs(
             outs, config, layout, omap,
             IF "outputs" \in DOMAIN target /\ target.outputs # <<>>
             THEN ResolveOutputs(target.outputs, omap) ELSE Ok(<<>>))

ProcessTargetConfig(target, outs, config, layout) ==
    TargetConfigMapped(target, outs, config, layout,
                       IF "resources" \in DOMAIN layout
                       THEN BuildOutputMap(layout.resources) ELSE None)

\* the name of the schema of a template
SchemaName(source_file) == source_file \o <<".", "s", "c", "h", "e", "m", "a">>

\* -------------------------------------------------------------------------
\* schema_validation.py, schema_validation_utils.py and the Draft 4 validator
\* of jsonschema for the keywords $ref, type, properties, required and items.
\* A schema is a record of its keywords: ref (the name under 'definitions'
\* that '#/definitions/<name>' points to), type, default, properties (key ->
\* schema), required, items, definitions, imports.
\* -------------------------------------------------------------------------
\* str(i) of an integer
StrInt(i) == CASE i = 0 -> <<"0">> [] i = 1 -> <<"1">> [] i = 2 -> <<"2">>
               [] i = 3 -> <<"3">> [] i = 5 -> <<"5">> [] OTHER -> <<"?">>

\* str(v) of a YAML value, as Python writes dicts and lists (repr of members)
RECURSIVE PyRepr(_)
RECURSIVE PyReprSeq(_)
RECURSIVE PyReprItems(_, _)
PyReprSeq(l) ==
    IF l = <<>> THEN <<>>
    ELSE PyRepr(Head(l)) \o (IF Len(l) > 1 THEN <<",", " ">> ELSE <<>>) \o PyReprSeq(Tail(l))

PyReprItems(m, keys) ==
    IF keys = <<>> THEN <<>>
    ELSE <<"'">> \o Head(keys) \o <<"'", ":", " ">> \o PyRepr(m[Head(keys)])
           \o (IF Len(keys) > 1 THEN <<",", " ">> ELSE <<>>) \o PyReprItems(m, Tail(keys))

PyRepr(v) ==
    CASE v.t = "str" -> <<"'">> \o v.s \o <<"'">>
      [] v.t = "int" -> StrInt(v.i)
      [] v.t = "list" -> <<"[">> \o PyReprSeq(v.l) \o <<"]">>
      [] v.t = "map" -> <<"{">> \o PyReprItems(v.m, SetToSeq(DOMAIN v.m)) \o <<"}">>
      [] OTHER -> <<"N", "o", "n", "e">>

PyStr(v) == IF v.t = "str" THEN v.s ELSE PyRepr(v)

\* references.HasReference(string): True, False, or the exception
HasReference(string) == FindReference(ReferenceMatcher(string))

\* Draft4Validator.is_type
IsType(v, type) ==
    CASE type = "integer" -> v.t = "int"
      [] type = "string" -> v.t = "str"
      [] type = "object" -> v.t = "map"
      [] type = "array" -> v.t = "list"
      [] OTHER -> FALSE

\* jsonschema's ValidationError: the validator that failed, the offending
\* value (error.instance) and where it is (error.path)
TypeMismatch(expected, instance, path) ==
    [kind |-> "type", expected |-> expected, instance |-> instance, path |-> path]

RequiredMissing(name, instance, path) ==
    [kind |-> "required", name |-> name, instance |-> instance, path |-> path]

KwType == <<"t", "y", "p", "e">>
KwRequired == <<"r", "e", "q", "u", "i", "r", "e", "d">>
KwProperties == <<"p", "r", "o", "p", "e", "r", "t", "i", "e", "s">>
KwItems == <<"i", "t", "e", "m", "s">>
KwDefinitions == <<"d", "e", "f", "i", "n", "i", "t", "i", "o", "n", "s">>
KwImports == <<"i", "m", "p", "o", "r", "t", "s">>

\* Draft4Validator(schema).iter_errors(instance), root being the schema file
\* that $ref resolves in; "$ref" overrides the other keywords
RECURSIVE IterErrors(_, _, _, _)
IterErrorsType(schema, instance, path) ==
    IF "type" \in DOMAIN schema /\ ~IsType(instance, schema.type)
    THEN {TypeMismatch(schema.type, instance, path)} ELSE {}

IterErrorsRequired(schema, instance, path) ==
    IF "required" \in DOMAIN schema /\ instance.t = "map"
    THEN {RequiredMissing(schema.required.l[i].s, instance, path) :
             i \in {j \in 1..Len(schema.required.l) :
                       schema.required.l[j].s \notin DOMAIN instance.m}}
    ELSE {}

IterErrorsProperties(schema, instance, path, root) ==
    IF "properties" \in DOMAIN schema /\ instance.t = "map"
    THEN UNION {IterErrors(schema.properties[k], instance.m[k], Append(path, k), root) :
                   k \in DOMAIN schema.properties \cap DOMAIN instance.m}
    ELSE {}

IterErrorsItems(schema, instance, path, root) ==
    IF "items" \in DOMAIN schema /\ instance.t = "list"
    THEN UNION {IterErrors(schema.items, instance.l[i], Append(path, StrInt(i - 1)), root) :
                   i \in 1..Len(instance.l)}
    ELSE {}

IterErrors(schema, instance, path, root) ==
    IF "ref" \in DOMAIN schema
    THEN IterErrors(root.definitions[schema.ref], instance, path, root)
    ELSE IterErrorsType(schema, instance, path)
           \cup IterErrorsRequired(schema, instance, path)
           \cup IterErrorsProperties(schema, instance, path, root)
           \cup IterErrorsItems(schema, instance, path, root)

\* SCHEMA_VALIDATOR.iter_errors(schema): the schema against the Draft 4
\* meta-schema ('type' is one of the simple types, 'required' is an array)
RECURSIVE MetaErrors(_, _)
MetaErrorsHere(schema, path) ==
    (IF "type" \in DOMAIN schema
           /\ schema.type \notin {"integer", "string", "object", "array", "number",
                                  "boolean", "null"}
     THEN {[kind |-> "enum", instance |-> [t |-> "name", n |-> schema.type],
            path |-> Append(path, KwType)]}
     ELSE {})
    \cup (IF "required" \in DOMAIN schema /\ schema.required.t # "list"
          THEN {TypeMismatch("array", schema.required, Append(path, KwRequired))}
          ELSE {})

MetaErrors(schema, path) ==
    MetaErrorsHere(schema, path)
    \cup (IF "properties" \in DOMAIN schema
          THEN UNION {MetaErrors(schema.properties[k], Append(Append(path, KwProperties), k)) :
                         k \in DOMAIN schema.properties}
          ELSE {})
    \cup (IF "items" \in DOMAIN schema
          THEN MetaErrors(schema.items, Append(path, KwItems)) ELSE {})
    \cup (IF "definitions" \in DOMAIN schema
          THEN UNION {MetaErrors(schema.definitions[k], Append(Append(path, KwDefinitions), k)) :
                         k \in DOMAIN schema.definitions}
          ELSE {})

KeyPath == <<"p", "a", "t", "h">>

\* IMPORT_SCHEMA_VALIDATOR.iter_errors(schema): 'imports' is an array of
\* objects that have a 'path'
ImportSchemaErrors(schema) ==
    IF schema.imports.t # "list"
    THEN {TypeMismatch("array", schema.imports, <<KwImports>>)}
    ELSE {RequiredMissing(KeyPath, schema.imports.l[i], <<KwImports, StrInt(i - 1)>>) :
             i \in {j \in 1..Len(schema.imports.l) :
                       KeyPath \notin DOMAIN schema.imports.l[j].m}}

\* "validating_imports = IMPORTS in schema and schema[IMPORTS]"
ValidatingImports(schema) ==
    /\ "imports" \in DOMAIN schema
    /\ (schema.imports.t = "list" => schema.imports.l # <<>>)
    /\ (schema.imports.t = "str" => schema.imports.s # <<>>)

\* ValidationErrors(schema_name, template_name, errors, is_schema_error); its
\* message starts "Invalid schema '<schema_name>'" or "Invalid properties for
\* '<template_name>'" and lists the errors
ValidationErrors(schema_name, template_name, errs, is_schema_error) ==
    [type |-> "ValidationErrors",
     is_schema_error |-> is_schema_error,
     errors |-> errs,
     message |-> [invalid |-> IF is_schema_error THEN "schema" ELSE "properties",
                  name |-> IF is_schema_error THEN schema_name ELSE template_name,
                  errors |-> errs]]

\* A _ValidateSchema that leaves the imports section unjudged.
ValidateSchemaErrorsMetaOnly(schema, validating_imports) == MetaErrors(schema, <<>>)

\* _ValidateSchema(schema, validating_imports, schema_name, template_name):
\* the schema errors, all of them
ValidateSchemaErrors(schema, validating_imports) ==
    (IF validating_imports THEN ImportSchemaErrors(schema) ELSE {})
    \cup MetaErrors(schema, <<>>)

\* "for import_object in schema[IMPORTS]": the files asked for and not in
\* imports
ImportName(import_object) ==
    IF KeyName \in DOMAIN import_object.m THEN import_object.m[KeyName].s
    ELSE import_object.m[KeyPath].s

ImportsMissing(schema, imps) ==
    {[kind |-> "import", file |-> ImportName(schema.imports.l[i])] :
        i \in {j \in 1..Len(schema.imports.l) :
                  ImportName(schema.imports.l[j]) \notin DOMAIN imps.m}}

\* ResolveReferencedDefault(validator, ref): the 'default' of the referenced
\* schema, or None
ResolveReferencedDefault(root, ref) ==
    IF "default" \in DOMAIN root.definitions[ref] THEN root.definitions[ref].default
    ELSE None

\* instance.setdefault(key, value)
SetDefault(instance, key, value) ==
    IF key \in DOMAIN instance.m THEN instance ELSE MapV((key :> value) @@ instance.m)

\* A SetDefaults that goes on to the next property where it finds one the
\* instance has.
RECURSIVE SetDefaultsContinue(_, _, _, _)
SetDefaultsContinue(props, keys, instance, root) ==
    IF keys = <<>> THEN instance
    ELSE IF Head(keys) \in DOMAIN instance.m
    THEN SetDefaultsContinue(props, Tail(keys), instance, root)
    ELSE SetDefaultsContinue(
             props, Tail(keys),
             IF "ref" \in DOMAIN props[Head(keys)]
             THEN SetDefault(instance, Head(keys),
                             ResolveReferencedDefault(root, props[Head(keys)].ref))
             ELSE IF "default" \in DOMAIN props[Head(keys)]
             THEN SetDefault(instance, Head(keys), props[Head(keys)].default)
             ELSE instance,
             root)

\* SetDefaults(validator, properties, instance), keys being the keys of
\* properties in the order iteritems() gives them: the loop returns at the
\* first property the instance has
RECURSIVE SetDefaults(_, _, _, _)
SetDefaults(props, keys, instance, root) ==
    IF keys = <<>> THEN instance
    ELSE IF Head(keys) \in DOMAIN instance.m THEN instance
    ELSE SetDefaults(
             props, Tail(keys),
             IF "ref" \in DOMAIN props[Head(keys)]
             THEN SetDefault(instance, Head(keys),
                             ResolveReferencedDefault(root, props[Head(keys)].ref))
             ELSE IF "default" \in DOMAIN props[Head(keys)]
             THEN SetDefault(instance, Head(keys), props[Head(keys)].default)
             ELSE instance,
             root)

\* the keys of a dict in the order a ranking of all keys puts them
KeysInOrder(keys, ranking) == SelectSeq(ranking, LAMBDA k : k \in keys)

\* list(DEFAULT_SETTER(schema).iter_errors(properties)): the 'properties'
\* keyword of the schema is answered by SetDefaults, which does not descend
\* into the properties; 'required' is ignored; the instance afterwards
DefaultSetter(schema, instance, ranking) ==
    IF "properties" \in DOMAIN schema
    THEN SetDefaults(schema.properties, KeysInOrder(DOMAIN schema.properties, ranking),
                     instance, schema)
    ELSE instance

\* _FilterReferences(error_generator): the errors kept, or the exception
\* HasReference raised
FilterRaises(errs) == {e \in errs : HasReference(PyStr(e.instance)).ret = "raise"}

FilterReferences(errs) ==
    IF FilterRaises(errs) # {}
    THEN Raise(HasReference(PyStr(Pick(FilterRaises(errs)).instance)).exc)
    ELSE Ok({e \in errs : HasReference(PyStr(e.instance)).ret = "False"})

\* Validate once the defaults are set: errors holds the import errors
ValidateFiltered(properties, schema_name, template_name, errs, fr) ==
    IF fr.raised THEN fr
    ELSE IF errs \cup fr.v # {}
    THEN Raise(ValidationErrors(schema_name, template_name, errs \cup fr.v, FALSE))
    ELSE Ok(properties)

ValidateDefaulted(properties, schema, schema_name, template_name, errs) ==
    ValidateFiltered(properties, schema_name, template_name, errs,
                     FilterReferences(IterErrors(schema, properties, <<>>, schema)))

\* Validate once the schema is loaded and found valid
ValidateChecked(properties, schema, schema_name, template_name, imps, ranking) ==
    ValidateDefaulted(DefaultSetter(schema, properties, ranking), schema,
                      schema_name, template_name,
                      IF ValidatingImports(schema) THEN ImportsMissing(schema, imps) ELSE {})

\* Validate once yaml.safe_load(raw_schema) returned the schema
ValidateLoaded(properties, schema, schema_errors, schema_name, template_name, imps, ranking) ==
    IF schema_errors # {}
    THEN Raise(ValidationErrors(schema_name, template_name, schema_errors, TRUE))
    ELSE ValidateChecked(properties, schema, schema_name, template_name, imps, ranking)

\* "if properties is None: properties = {}"
PropertiesOrEmpty(properties) == IF properties.t = "null" THEN MapV(<<>>) ELSE properties

\* schema_validation.Validate(properties, schema_name, template_name, imports),
\* ranking being the order dicts iterate their keys in.  raw_schema is the
\* entry of imports: yaml.safe_load reads a string, and cannot read the dict
\* {path, content} that redirect asks for.
ValidateRaw(properties, content, schema_name, template_name, imps, ranking) ==
    IF content.k # "schema" THEN Ok(PropertiesOrEmpty(properties))
    ELSE ValidateLoaded(PropertiesOrEmpty(properties), content.schema,
                        ValidateSchemaErrors(content.schema, ValidatingImports(content.schema)),
                        schema_name, template_name, imps, ranking)

ValidateRanked(properties, schema_name, template_name, imps, ranking) ==
    IF schema_name \notin DOMAIN imps.m
    THEN Raise(ValidationErrors(schema_name, template_name,
                                {[kind |-> "text", text |-> "Could not find schema file."]},
                                FALSE))
    ELSE IF imps.m[schema_name].dict
    THEN Raise([type |-> "AttributeError",
                message |-> Msg("'dict' object has no attribute 'read'")])
    ELSE ValidateRaw(properties, imps.m[schema_name].content, schema_name,
                     template_name, imps, ranking)

\* CPython 2 iterates a dict with the keys 'a' and 'b' in this order
DictOrder == <<<<"a">>, <<"b">>>>

Validate(properties, schema_name, template_name, imps) ==
    ValidateRanked(properties, schema_name, template_name, imps, DictOrder)

\* ExpandJinja / ExpandPython followed by yaml.safe_load and the check of
\* 'resources': content says what rendering the template gives
ExpandRendered(resource, content) ==
    CASE content.k = "raises" ->
           Raise(ExpansionError(OfChars(resource.type), Msg("Exception in template")))
      [] content.k = "badyaml" ->
           Raise([type |-> "ScannerError", message |-> Msg("while scanning")])
      [] content.k = "null" ->
           Raise(ExpansionError(OfChars(resource.type),
                                Msg("Template did not return a 'resources:' field.")))
      [] content.k = "doc" /\ "resources" \notin DOMAIN content.doc ->
           Raise(ExpansionError(OfChars(resource.type),
                                Msg("Template did not return a 'resources:' field.")))
      [] OTHER -> Ok(content.doc)

\* the dispatch of ExpandTemplate on the suffix of path
ExpandDispatch(resource, path, content) ==
    IF EndsWith(path, <<"j", "i", "n", "j", "a">>) \/ EndsWith(path, <<"y", "a", "m", "l">>)
           \/ EndsWith(path, <<"p", "y">>)
    THEN ExpandRendered(resource, content)
    ELSE Raise([type |-> "KeyError", message |-> Msg("'source'")])

\* ExpandTemplate once the schema is validated (va: what Validate gave)
ExpandValidated(resource, entry, va) ==
    IF va.raised
    THEN IF va.exc.type = "ValidationErrors"
         THEN Raise(ExpansionError(OfChars(resource.name), va.exc.message))
         ELSE va
    ELSE ExpandDispatch(resource,
                        IF entry.dict /\ entry.path # <<>> THEN entry.path
                        ELSE resource.type,
                        entry.content)

\* ExpandTemplate(resource, imports, env, validate_schema): parsed_template,
\* or the exception
ExpandTemplate(resource, imps, validate) ==
    IF resource.type \notin DOMAIN imps.m
    THEN Raise(ExpansionError(OfChars(resource.type),
                              Msg("Unable to find source file in imports.")))
    ELSE ExpandValidated(
             resource, imps.m[resource.type],
             IF validate /\ SchemaName(resource.type) \in DOMAIN imps.m
             THEN Validate(IF "properties" \in DOMAIN resource
                           THEN resource.properties ELSE MapV(<<>>),
                           SchemaName(resource.type), resource.type, imps)
             ELSE Ok(None))

\* -------------------------------------------------------------------------
\* The strings and output maps the reference engine is run on
\* -------------------------------------------------------------------------
NameA == <<"a">>       \* a resource name that output maps may hold
NameB == <<"b">>
NameZ == <<"z">>       \* a resource name no output map holds
PathS == <<"s">>
PathT == <<"t">>       \* an output no template declares
PathCall == <<"g", "(", "s", ")">>
PathIndexEnd == <<"l", "[", "2", "]">>
OutL == <<"l">>

Text(chars) == [k |-> "text", s |-> chars]
Ref(name, path) == [k |-> "ref", name |-> name, path |-> path]

RefPaths == {PathS, PathT, PathCall, PathIndexEnd, BuildReference(NameA, PathS)}
RefSegments == {Ref(n, p) : n \in {NameA, NameZ}, p \in RefPaths}
PlainTexts == {Text(<<"x", "\n">>), Text(<<")", ".">>)}
BrokenTexts == {Text(REF_PREFIX_PATTERN \o NameA),
                Text(REF_PREFIX_PATTERN \o NameA \o <<".", "s", "\n", ")">>)}
Segments == RefSegments \cup PlainTexts \cup BrokenTexts

RECURSIVE SeqsUpTo(_, _)
SeqsUpTo(S, n) ==
    IF n = 0 THEN {<<>>}
    ELSE LET shorter == SeqsUpTo(S, n - 1)
         IN  shorter \cup {Append(q, x) : q \in {r \in shorter : Len(r) = n - 1}, x \in S}

\* the string a list of segments spells
RECURSIVE Spell(_)
Spell(ss) ==
    IF ss = <<>> THEN <<>>
    ELSE (IF Head(ss).k = "text" THEN Head(ss).s
          ELSE BuildReference(Head(ss).name, Head(ss).path)) \o Spell(Tail(ss))

OutputValueMaps ==
    {MapV((PathS :> v) @@ (OutL :> ListV(<<StrV(<<"p">>), StrV(<<"q">>)>>))) :
        v \in {StrV(<<"v">>), IntV(2), None}}
OutputMaps == {None} \cup {MapV(NameA :> ovm) : ovm \in OutputValueMaps}

\* -------------------------------------------------------------------------
\* SpecRef: _TraverseNode on one string, one pass of its loop per step, and
\* the way an exception of it leaves Expand
\* -------------------------------------------------------------------------
\* no helper was called
NoValue == [k |-> "none"]

TemplateIdle == params = NoValue /\ evaluation_context = NoValue
PermuteIdle == permuted = NoValue
AuxIdle ==
    /\ ref_value = NoValue
    /\ driver = "expandybird"
    /\ invocations = <<>>
    /\ TemplateIdle
    /\ PermuteIdle

\* no call has redirected
NoModule == [k |-> "none"]

SandboxIdle ==
    /\ calls = 0
    /\ call_imports = None
    /\ _IMPORTS = <<>>
    /\ sys_modules = <<>>
    /\ resolved = NoModule

\* Validate is not running
ValIdle ==
    /\ vpc = "idle"
    /\ user_properties = None
    /\ properties0 = None
    /\ errors = {}
    /\ order = <<>>

ExpandIdle ==
    /\ pc = "idle"
    /\ yaml_config = None
    /\ imports = None
    /\ outputs = TRUE
    /\ validate_schema = FALSE
    /\ stack = <<>>
    /\ result = NoResult

InitRef ==
    /\ ExpandIdle
    /\ ValIdle
    /\ SandboxIdle
    /\ AuxIdle
    /\ segs \in SeqsUpTo(Segments, MaxSegs)
    /\ node0 = Spell(segs)
    /\ node = node0
    /\ rm = ReferenceMatcher(node0)
    /\ list_references = ListV(<<>>)
    /\ output_map \in OutputMaps
    /\ rpc = "scan"
    /\ error = None

TraverseState == [rm |-> rm, node |-> node, list_references |-> list_references]

\* FindReference returned True: the body of the loop
TraverseFound ==
    /\ rpc = "scan"
    /\ LET nx == TraverseStep(TraverseState, output_map)
       IN  /\ nx.status = "continue"
           /\ rm' = nx.rm
           /\ node' = nx.node
           /\ list_references' = nx.list_references
    /\ UNCHANGED <<rpc, error, node0, segs, output_map, expandVars, valVars, sandboxVars, auxVars>>

\* FindReference returned False: _TraverseNode returns the node
TraverseReturn ==
    /\ rpc = "scan"
    /\ TraverseStep(TraverseState, output_map).status = "returned"
    /\ rpc' = "returned"
    /\ UNCHANGED <<rm, node, list_references, error, node0, segs, output_map, expandVars, valVars, sandboxVars, auxVars>>

\* FindReference, _ExtractWithJsonPath or str.replace raised
TraverseRaise ==
    /\ rpc = "scan"
    /\ LET nx == TraverseStep(TraverseState, output_map)
       IN  /\ nx.status = "raised"
           /\ rm' = nx.rm
           /\ list_references' = nx.list_references
           /\ error' = nx.exc
    /\ rpc' = "raised"
    /\ UNCHANGED <<node, node0, segs, output_map, expandVars, valVars, sandboxVars, auxVars>>

\* the exception reaches Expand, which no frame in between catches
TraversePropagate ==
    /\ rpc = "raised"
    /\ rpc' = "failed"
    /\ result' = ExpandExcept(error)
    /\ UNCHANGED <<pc, yaml_config, imports, outputs, validate_schema, stack,
                   rm, node, node0, segs, list_references, output_map, error, valVars, sandboxVars, auxVars>>

NextRef == TraverseFound \/ TraverseReturn \/ TraverseRaise \/ TraversePropagate

SpecRef == InitRef /\ [][NextRef]_vars

\* -------------------------------------------------------------------------
\* The documents and imports Expand is run on
\* -------------------------------------------------------------------------
MaxRootLen == 2    \* resources in the root document
MaxDepth == 3      \* nested _ProcessResource calls the interpreter allows

TypeP == <<"p">>                                  \* a primitive type
TypeT == <<"t", ".", "j", "i", "n", "j", "a">>    \* templates
TypeU == <<"u", ".", "p", "y">>
TypeM == <<"m", ".", "j", "i", "n", "j", "a">>    \* a template no imports hold
KeyK == <<"k">>

PrimA == [name |-> NameA, type |-> TypeP]
PrimBRefS == [name |-> NameB, type |-> TypeP,
              properties |-> MapV(KeyK :> StrV(BuildReference(NameA, PathS)))]
PrimBRefT == [name |-> NameB, type |-> TypeP,
              properties |-> MapV(KeyK :> StrV(BuildReference(NameA, PathT)))]
PrimBMalformed == [name |-> NameB, type |-> TypeP,
                   properties |-> MapV(KeyK :> StrV(REF_PREFIX_PATTERN \o NameA))]
TmplA == [name |-> NameA, type |-> TypeT]
TmplAProps == [name |-> NameA, type |-> TypeT,
               properties |-> MapV(KeyK :> StrV(<<"x">>))]
TmplBU == [name |-> NameB, type |-> TypeU]
TmplM == [name |-> NameA, type |-> TypeM]
NoName == [type |-> TypeP]
NoType == [name |-> NameB]

RootResources ==
    {PrimA, PrimBRefS, PrimBRefT, PrimBMalformed, TmplA, TmplAProps, TmplBU, TmplM,
     NoName, NoType}

\* an item of an outputs list: the output s with value v
OutS(v) == MapV((KeyName :> StrV(PathS)) @@ (KeyValue :> v))

RootConfigs ==
    {DocV([resources |-> ListV(rs)]) : rs \in SeqsUpTo(RootResources, MaxRootLen)}
    \cup {DocV([resources |-> None]),
          DocV([outputs |-> <<OutS(StrV(BuildReference(NameA, PathS)))>>]),
          DocV([resources |-> ListV(<<TmplA>>),
                outputs |-> <<OutS(StrV(BuildReference(NameA, PathS)))>>]),
          DocV([resources |-> ListV(<<TmplA>>),
                outputs |-> <<OutS(StrV(BuildReference(NameB, PathS)))>>]),
          None, StrV(<<"x">>), ListV(<<>>), [t |-> "scanner_error"]}

\* what the templates render to
DocLeaf(v) == [resources |-> ListV(<<PrimA>>), outputs |-> <<OutS(v)>>]
DocNested == [resources |-> ListV(<<PrimA, TmplBU>>)]
DocNestedOut == [resources |-> ListV(<<PrimA, TmplBU>>), outputs |-> <<OutS(StrV(<<"v">>))>>]
DocDup == [resources |-> ListV(<<PrimA, PrimA>>)]
DocEmpty == [resources |-> ListV(<<>>), outputs |-> <<OutS(StrV(<<"v">>))>>]
DocNoResources == [outputs |-> <<OutS(StrV(<<"v">>))>>]
DocSelf == [resources |-> ListV(<<TmplA>>)]
DocOther == [resources |-> ListV(<<TmplBU>>)]

\* an entry of imports: {'path': path, 'content': ...}, content standing for
\* what the template renders to
Entry(path, content) == [dict |-> TRUE, path |-> path, content |-> content]
Renders(doc) == [k |-> "doc", doc |-> doc]
\* an entry of the older form, the content itself
LegacyEntry(content) == [dict |-> FALSE, content |-> content]

ImportMaps ==
    {None, MapV(<<>>),
     MapV((TypeT :> Entry(TypeT, Renders(DocLeaf(StrV(<<"v">>)))))
          @@ (TypeU :> Entry(TypeU, Renders(DocLeaf(StrV(<<"w">>)))))),
     MapV(TypeT :> Entry(<<>>, Renders(DocLeaf(IntV(2))))),
     MapV((TypeT :> Entry(TypeT, Renders(DocNested)))
          @@ (TypeU :> Entry(TypeU, Renders(DocLeaf(StrV(<<"w">>)))))),
     MapV((TypeT :> Entry(TypeT, Renders(DocNestedOut)))
          @@ (TypeU :> Entry(TypeU, Renders(DocLeaf(StrV(<<"w">>)))))),
     MapV(TypeT :> Entry(TypeT, Renders(DocDup))),
     MapV(TypeT :> Entry(TypeT, Renders(DocEmpty))),
     MapV((TypeT :> Entry(TypeT, Renders(DocNoResources)))
          @@ (TypeU :> Entry(TypeU, [k |-> "raises"]))),
     MapV((TypeT :> Entry(TypeT, [k |-> "null"]))
          @@ (TypeU :> Entry(TypeU, [k |-> "badyaml"]))),
     MapV(TypeT :> Entry(TypeT, Renders(DocSelf))),
     MapV((TypeT :> Entry(TypeT, Renders(DocOther)))
          @@ (TypeU :> Entry(TypeU, Renders(DocSelf)))),
     MapV(TypeT :> Entry(<<"t", ".", "t", "x", "t">>, Renders(DocLeaf(StrV(<<"v">>))))),
     MapV(TypeT :> LegacyEntry(Renders(DocLeaf(StrV(<<"v">>))))),
     MapV(TypeT :> Entry(TypeT, Renders(DocLeaf(None)))),
     MapV(TypeT :> Entry(TypeT, Renders(DocLeaf(StrV(BuildReference(NameA, PathS)))))),
     MapV((TypeT :> Entry(TypeT, Renders(DocLeaf(StrV(<<"v">>)))))
          @@ (SchemaName(TypeT) :> Entry(SchemaName(TypeT), [k |-> "schema"])))}

\* -------------------------------------------------------------------------
\* Spec: Expand, one step per resource processed
\* -------------------------------------------------------------------------
RefIdle ==
    /\ rpc = "idle"
    /\ node = <<>>
    /\ node0 = <<>>
    /\ segs = <<>>
    /\ rm = ReferenceMatcher(<<>>)
    /\ list_references = None
    /\ output_map = None

Init ==
    /\ RefIdle
    /\ ValIdle
    /\ SandboxIdle
    /\ AuxIdle
    /\ error = None
    /\ pc = "start"
    /\ yaml_config \in RootConfigs
    /\ imports \in ImportMaps
    /\ outputs \in BOOLEAN
    /\ validate_schema \in
           (IF imports.t = "map" /\ SchemaName(TypeT) \in DOMAIN imports.m
            THEN BOOLEAN ELSE {FALSE})
    /\ stack = <<>>
    /\ result = NoResult

inputVars == <<yaml_config, imports, outputs, validate_schema>>
refIdleVars == <<rpc, node, node0, segs, rm, list_references, output_map, valVars, sandboxVars, auxVars>>

\* a frame of the walk: the list target['resources'] being iterated, the
\* position in it, and the config['resources'] and layout built so far;
\* resource is the template resource of a _ProcessResource frame
RootFrame(target) ==
    [kind |-> "root", resource |-> None, target |-> target, i |-> 1,
     config |-> <<>>, layout |-> [resources |-> <<>>]]

TemplateFrame(resource, target) ==
    [kind |-> "template", resource |-> resource, target |-> target, i |-> 1,
     config |-> <<>>, layout |-> [name |-> resource.name, type |-> resource.type]]

\* _Expand up to its loop: "yaml_config['resources'] = []" when the key is
\* missing or None
RootTarget(d) ==
    IF "resources" \in DOMAIN d /\ d.resources.t = "list" THEN d
    ELSE [resources |-> ListV(<<>>)] @@ d

ExpandRoot(target, dup) ==
    IF dup # None THEN [k |-> "raise", exc |-> dup]
    ELSE [k |-> "walk", frame |-> RootFrame(target)]

ExpandParsed(cfg) ==
    CASE cfg.t = "scanner_error" ->
           [k |-> "raise",
            exc |-> [type |-> "Exception", message |-> Msg("Error parsing YAML")]]
      [] cfg.t = "null" -> [k |-> "return", v |-> StrV(<<>>)]
      [] cfg.t = "str" -> [k |-> "return", v |-> cfg]
      [] cfg.t = "list" ->
           [k |-> "raise",
            exc |-> [type |-> "AttributeError",
                     message |-> Msg("'list' object has no attribute 'has_key'")]]
      [] OTHER -> ExpandRoot(RootTarget(cfg.d),
                             ValidateUniqueNames(RootTarget(cfg.d).resources.l,
                                                 ConfigName))

ExpandRedirected(cfg, redirected) ==
    IF redirected # None THEN [k |-> "raise", exc |-> redirected]
    ELSE ExpandParsed(cfg)

ExpandStart(cfg, imps) == ExpandRedirected(cfg, Redirect(imps))

\* _ProcessResource on a template, et being what ExpandTemplate gave and dup
\* what _ValidateUniqueNames gave
ProcessExpandedResult(resource, ptc) ==
    IF ptc.raised THEN [k |-> "raise", exc |-> ptc.exc]
    ELSE [k |-> "return", kind |-> "template", v |-> ptc.v]

ProcessExpanded(resource, outs, et, dup) ==
    IF et.raised THEN [k |-> "raise", exc |-> et.exc]
    ELSE IF dup # None THEN [k |-> "raise", exc |-> dup]
    ELSE IF et.v.resources.t = "list" /\ et.v.resources.l # <<>>
    THEN [k |-> "enter", frame |-> TemplateFrame(resource, et.v)]
    ELSE ProcessExpandedResult(
             resource,
             ProcessTargetConfig(et.v, outs, <<>>,
                                 [name |-> resource.name, type |-> resource.type]))

ProcessTemplate(resource, outs, et) ==
    ProcessExpanded(resource, outs, et,
                    IF ~et.raised /\ et.v.resources.t = "list"
                    THEN ValidateUniqueNames(et.v.resources.l, resource.type)
                    ELSE None)

\* A _ProcessResource that never takes the template branch.
ProcessResourceAsPrimitive(resource, imps, validate, outs, depth) ==
    IF "name" \notin DOMAIN resource
    THEN [k |-> "raise",
          exc |-> ExpansionError(OfDict(resource), Msg("Resource does not have a name."))]
    ELSE IF "type" \notin DOMAIN resource
    THEN [k |-> "raise",
          exc |-> ExpansionError(OfDict(resource),
                                 Msg("Resource does not have type defined."))]
    ELSE [k |-> "return", kind |-> "primitive",
          v |-> [config |-> <<resource>>,
                 layout |-> [name |-> resource.name, type |-> resource.type]]]

\* _ProcessResource(resource, imports, env, validate_schema, outputs) called
\* with depth calls of it active: it raises, returns {'config', 'layout'},
\* or enters its loop over the resources of the template
ProcessResource(resource, imps, validate, outs, depth) ==
    IF depth > MaxDepth
    THEN [k |-> "raise",
          exc |-> [type |-> "RuntimeError",
                   message |-> Msg("maximum recursion depth exceeded")]]
    ELSE IF "name" \notin DOMAIN resource
    THEN [k |-> "raise",
          exc |-> ExpansionError(OfDict(resource), Msg("Resource does not have a name."))]
    ELSE IF "type" \notin DOMAIN resource
    THEN [k |-> "raise",
          exc |-> ExpansionError(OfDict(resource),
                                 Msg("Resource does not have type defined."))]
    ELSE IF ImportsTruthy(imps) /\ resource.type \in DOMAIN imps.m
    THEN ProcessTemplate(resource, outs, ExpandTemplate(resource, imps, validate))
    ELSE [k |-> "return", kind |-> "primitive",
          v |-> [config |-> <<resource>>,
                 layout |-> [name |-> resource.name, type |-> resource.type]]]

\* the body of the caller's loop once _ProcessResource returned processed
AbsorbLayout(frame, layout) ==
    IF frame.kind = "template" /\ "properties" \in DOMAIN frame.resource
    THEN [properties |-> frame.resource.properties] @@ layout
    ELSE layout

\* A loop body that puts the resources of the child before those gathered
\* so far.
AbsorbPrepend(frame, processed) ==
    [frame EXCEPT
        !.i = @ + 1,
        !.config = processed.config \o @,
        !.layout = AbsorbLayout(
                       frame,
                       IF "resources" \in DOMAIN @
                       THEN [@ EXCEPT !.resources = Append(@, processed.layout)]
                       ELSE [resources |-> <<processed.layout>>] @@ @)]

Absorb(frame, processed) ==
    [frame EXCEPT
        !.i = @ + 1,
        !.config = @ \o processed.config,
        !.layout = AbsorbLayout(
                       frame,
                       IF "resources" \in DOMAIN @
                       THEN [@ EXCEPT !.resources = Append(@, processed.layout)]
                       ELSE [resources |-> <<processed.layout>>] @@ @)]

Top == stack[Len(stack)]
Pending(frame) == frame.i <= Len(frame.target.resources.l)

Fail(e) ==
    /\ pc' = "raising"
    /\ error' = e
    /\ stack' = <<>>
    /\ UNCHANGED <<inputVars, result, refIdleVars>>

\* _Expand returns '' or the string the document is
ExpandReturnEarly ==
    /\ pc = "start"
    /\ \E st \in {ExpandStart(yaml_config, imports)} :
          /\ st.k = "return"
          /\ result' = Returned(st.v)
    /\ pc' = "done"
    /\ UNCHANGED <<inputVars, stack, error, refIdleVars>>

\* redirect, yaml.safe_load, has_key or _ValidateUniqueNames raises
ExpandBeginRaise ==
    /\ pc = "start"
    /\ \E st \in {ExpandStart(yaml_config, imports)} :
          /\ st.k = "raise"
          /\ Fail(st.exc)

\* _Expand reaches its loop over yaml_config['resources']
ExpandBegin ==
    /\ pc = "start"
    /\ \E st \in {ExpandStart(yaml_config, imports)} :
          /\ st.k = "walk"
          /\ stack' = <<st.frame>>
    /\ pc' = "walk"
    /\ UNCHANGED <<inputVars, result, error, refIdleVars>>

NextResource == Top.target.resources.l[Top.i]

ProcessNext ==
    ProcessResource(NextResource, imports, validate_schema, outputs, Len(stack))

\* _ProcessResource raises
ProcessResourceRaise ==
    /\ pc = "walk"
    /\ Pending(Top)
    /\ \E pr \in {ProcessNext} :
          /\ pr.k = "raise"
          /\ Fail(pr.exc)

\* _ProcessResource returns a primitive resource
ProcessPrimitive ==
    /\ pc = "walk"
    /\ Pending(Top)
    /\ \E pr \in {ProcessNext} :
          /\ pr.k = "return"
          /\ pr.kind = "primitive"
          /\ stack' = [stack EXCEPT ![Len(stack)] = Absorb(@, pr.v)]
    /\ UNCHANGED <<pc, inputVars, result, error, refIdleVars>>

\* _ProcessResource returns for a template that emitted no resources
ProcessEmptyTemplate ==
    /\ pc = "walk"
    /\ Pending(Top)
    /\ \E pr \in {ProcessNext} :
          /\ pr.k = "return"
          /\ pr.kind = "template"
          /\ stack' = [stack EXCEPT ![Len(stack)] = Absorb(@, pr.v)]
    /\ UNCHANGED <<pc, inputVars, result, error, refIdleVars>>

\* _ProcessResource enters the loop over the resources of a template
ProcessTemplateEnter ==
    /\ pc = "walk"
    /\ Pending(Top)
    /\ \E pr \in {ProcessNext} :
          /\ pr.k = "enter"
          /\ stack' = Append(stack, pr.frame)
    /\ UNCHANGED <<pc, inputVars, result, error, refIdleVars>>

ProcessTop == ProcessTargetConfig(Top.target, outputs, Top.config, Top.layout)

\* _ProcessTargetConfig raises, at the end of a template or of the root
ProcessTargetRaise ==
    /\ pc = "walk"
    /\ ~Pending(Top)
    /\ \E ptc \in {ProcessTop} :
          /\ ptc.raised
          /\ Fail(ptc.exc)

\* the loop of a template is over: _ProcessTargetConfig, and _ProcessResource
\* returns to the loop that called it
ProcessResourceReturn ==
    /\ pc = "walk"
    /\ Len(stack) > 1
    /\ ~Pending(Top)
    /\ \E ptc \in {ProcessTop} :
          /\ ~ptc.raised
          /\ stack' = Append(SubSeq(stack, 1, Len(stack) - 2),
                             Absorb(stack[Len(stack) - 1], ptc.v))
    /\ UNCHANGED <<pc, inputVars, result, error, refIdleVars>>

\* -------------------------------------------------------------------------
\* yaml.safe_dump(result, default_flow_style=False): block style, the keys
\* of a mapping sorted, a sequence under a key not indented, a string that
\* would read back as another type in single quotes
\* -------------------------------------------------------------------------
KwResources == <<"r", "e", "s", "o", "u", "r", "c", "e", "s">>
KwOutputs == <<"o", "u", "t", "p", "u", "t", "s">>
KwConfig == <<"c", "o", "n", "f", "i", "g">>
KwLayout == <<"l", "a", "y", "o", "u", "t">>

\* the characters in the order Python compares them
Alphabet ==
    <<"\n", " ", "$", "'", "(", ")", "*", ",", "-", ".", "/",
      "0", "1", "2", "3", "4", "5", "6", "7", "8", "9", ":", "?", "[", "]", "_",
      "a", "b", "c", "d", "e", "f", "g", "h", "i", "j", "k", "l", "m",
      "n", "o", "p", "q", "r", "s", "t", "u", "v", "w", "x", "y", "z", "{", "}", "~">>

CharRank(c) == CHOOSE n \in DOMAIN Alphabet : Alphabet[n] = c

\* a < b for strings
RECURSIVE StrLess(_, _)
StrLess(a, b) ==
    IF b = <<>> THEN FALSE
    ELSE IF a = <<>> THEN TRUE
    ELSE IF Head(a) = Head(b) THEN StrLess(Tail(a), Tail(b))
    ELSE CharRank(Head(a)) < CharRank(Head(b))

\* sorted(keys)
RECURSIVE SortedKeys(_)
SortedKeys(keys) ==
    IF keys = {} THEN <<>>
    ELSE LET least == CHOOSE k \in keys : \A j \in keys \ {k} : StrLess(k, j)
         IN  <<least>> \o SortedKeys(keys \ {least})

\* what the implicit resolver makes of a plain scalar
Digits == {"0", "1", "2", "3", "4", "5", "6", "7", "8", "9"}

ResolvePlain(text) ==
    IF text \in {<<>>, <<"~">>, <<"n", "u", "l", "l">>} THEN "null"
    ELSE IF \A n \in DOMAIN text : text[n] \in Digits THEN "int"
    ELSE IF text \in {<<"t", "r", "u", "e">>, <<"f", "a", "l", "s", "e">>,
                      <<"y", "e", "s">>, <<"n", "o">>, <<"o", "n">>, <<"o", "f", "f">>}
    THEN "bool"
    ELSE "str"

\* a string that cannot be written plain: it would resolve to another type,
\* or starts with an indicator, or holds ': ' or a line break
NeedsQuotes(text) ==
    \/ ResolvePlain(text) # "str"
    \/ Head(text) \in {"-", "?", ":", ",", "[", "]", "{", "}", "'", "*", " "}
    \/ \E n \in DOMAIN text : text[n] = "\n"
    \/ \E n \in 1..(Len(text) - 1) : text[n] = ":" /\ text[n + 1] = " "

\* a string the model dumps without quotes although it needs them
DumpStringPlain(text) == text

DumpString(text) == IF NeedsQuotes(text) THEN <<"'">> \o text \o <<"'">> ELSE text

\* a node written on the line of its key or of its dash
IsInline(v) ==
    \/ v.t \in {"str", "int", "null"}
    \/ v.t = "list" /\ v.l = <<>>
    \/ v.t = "map" /\ DOMAIN v.m = {}

DumpInline(v) ==
    CASE v.t = "str" -> DumpString(v.s)
      [] v.t = "int" -> StrInt(v.i)
      [] v.t = "list" -> <<"[", "]">>
      [] v.t = "map" -> <<"{", "}">>
      [] OTHER -> <<"n", "u", "l", "l">>

Spaces(n) == [j \in 1..n |-> " "]

\* the lines of a block collection at an indentation
RECURSIVE DumpBlock(_, _)
RECURSIVE DumpEntries(_, _, _)
RECURSIVE DumpItems(_, _)
\* the first line of the lines of an item carries the dash
DashFirst(lines, indent) ==
    <<Spaces(indent) \o <<"-", " ">> \o SubSeq(lines[1], indent + 3, Len(lines[1]))>>
        \o Tail(lines)

DumpEntries(m, keys, indent) ==
    IF keys = <<>> THEN <<>>
    ELSE (IF IsInline(m[Head(keys)])
          THEN <<Spaces(indent) \o DumpString(Head(keys)) \o <<":", " ">>
                    \o DumpInline(m[Head(keys)])>>
          ELSE <<Spaces(indent) \o DumpString(Head(keys)) \o <<":">>>>
                 \o DumpBlock(m[Head(keys)],
                              IF m[Head(keys)].t = "list" THEN indent ELSE indent + 2))
         \o DumpEntries(m, Tail(keys), indent)

DumpItems(l, indent) ==
    IF l = <<>> THEN <<>>
    ELSE (IF IsInline(Head(l))
          THEN <<Spaces(indent) \o <<"-", " ">> \o DumpInline(Head(l))>>
          ELSE DashFirst(DumpBlock(Head(l), indent + 2), indent))
         \o DumpItems(Tail(l), indent)

DumpBlock(v, indent) ==
    IF v.t = "map" THEN DumpEntries(v.m, SortedKeys(DOMAIN v.m), indent)
    ELSE DumpItems(v.l, indent)

RECURSIVE JoinLines(_)
JoinLines(lines) ==
    IF lines = <<>> THEN <<>> ELSE Head(lines) \o <<"\n">> \o JoinLines(Tail(lines))

SafeDump(v) == IF IsInline(v) THEN DumpInline(v) \o <<"\n">> ELSE JoinLines(DumpBlock(v, 0))

\* a resource dict and a layout node as the values they are
ResourceValue(r) ==
    MapV([key \in (IF "name" \in DOMAIN r THEN {KeyName} ELSE {})
                \cup (IF "type" \in DOMAIN r THEN {KwType} ELSE {})
                \cup (IF "properties" \in DOMAIN r THEN {KwProperties} ELSE {}) |->
             CASE key = KeyName -> StrV(r.name)
               [] key = KwType -> StrV(r.type)
               [] OTHER -> r.properties])

RECURSIVE LayoutValue(_)
LayoutValue(n) ==
    MapV([key \in (IF "name" \in DOMAIN n THEN {KeyName} ELSE {})
                \cup (IF "type" \in DOMAIN n THEN {KwType} ELSE {})
                \cup (IF "properties" \in DOMAIN n THEN {KwProperties} ELSE {})
                \cup (IF "outputs" \in DOMAIN n THEN {KwOutputs} ELSE {})
                \cup (IF "resources" \in DOMAIN n THEN {KwResources} ELSE {}) |->
             CASE key = KeyName -> StrV(n.name)
               [] key = KwType -> StrV(n.type)
               [] key = KwProperties -> n.properties
               [] key = KwOutputs -> ListV(n.outputs)
               [] OTHER -> ListV([j \in DOMAIN n.resources |-> LayoutValue(n.resources[j])])])

\* "result = {'config': config, 'layout': layout}"
ResultValue(config, layout) ==
    MapV((KwConfig :> MapV(KwResources :> ListV([j \in DOMAIN config |-> ResourceValue(config[j])])))
         @@ (KwLayout :> LayoutValue(layout)))

\* the loop of _Expand is over: _ProcessTargetConfig, and the result is dumped
ExpandFinish ==
    /\ pc = "walk"
    /\ Len(stack) = 1
    /\ ~Pending(Top)
    /\ \E ptc \in {ProcessTop} :
          /\ ~ptc.raised
          /\ result' = Returned([t |-> "yaml",
                                 config |-> [resources |-> ptc.v.config],
                                 layout |-> ptc.v.layout,
                                 text |-> SafeDump(ResultValue(ptc.v.config, ptc.v.layout))])
    /\ pc' = "done"
    /\ stack' = <<>>
    /\ UNCHANGED <<inputVars, error, refIdleVars>>

\* Expand: the exception reaches "except Exception as e"
ExpandRaise ==
    /\ pc = "raising"
    /\ result' = ExpandExcept(error)
    /\ pc' = "done"
    /\ UNCHANGED <<inputVars, stack, error, refIdleVars>>

Next ==
    \/ ExpandReturnEarly
    \/ ExpandBeginRaise
    \/ ExpandBegin
    \/ ProcessResourceRaise
    \/ ProcessPrimitive
    \/ ProcessEmptyTemplate
    \/ ProcessTemplateEnter
    \/ ProcessTargetRaise
    \/ ProcessResourceReturn
    \/ ExpandFinish
    \/ ExpandRaise

Spec == Init /\ [][Next]_vars

\* -------------------------------------------------------------------------
\* SpecPopulate: PopulateReferences applied to a document, and applied again
\* to what it returned, with the same output map
\* -------------------------------------------------------------------------
\* the output of template a is the output of its sibling b
ChainedOutputMap ==
    MapV((NameA :> MapV(PathS :> StrV(BuildReference(NameB, PathS))))
         @@ (NameB :> MapV(PathS :> StrV(<<"v">>))))

PopulateOutputMaps == (OutputMaps \ {None}) \cup {ChainedOutputMap}

\* a string as a document of its own, in a list, and as a property value
Documents(chars) ==
    {StrV(chars), ListV(<<StrV(<<"x">>), StrV(chars)>>), MapV(KeyK :> StrV(chars))}

InitPopulate ==
    /\ ExpandIdle
    /\ ValIdle
    /\ SandboxIdle
    /\ AuxIdle
    /\ segs \in SeqsUpTo(Segments, MaxSegs)
    /\ node0 \in Documents(Spell(segs))
    /\ node = node0
    /\ rm = ReferenceMatcher(<<>>)
    /\ list_references = None
    /\ output_map \in PopulateOutputMaps
    /\ rpc = "ready"
    /\ error = None

\* PopulateReferences(node, output_map) returns: node0 is what it was given
Populate ==
    /\ rpc \in {"ready", "populated"}
    /\ \E r \in {PopulateReferences(node, output_map)} :
          /\ ~r.raised
          /\ node0' = node
          /\ node' = r.node
    /\ rpc' = (IF rpc = "ready" THEN "populated" ELSE "repopulated")
    /\ UNCHANGED <<segs, rm, list_references, output_map, error, expandVars, valVars, sandboxVars, auxVars>>

\* PopulateReferences(node, output_map) raises
PopulateRaise ==
    /\ rpc \in {"ready", "populated"}
    /\ \E r \in {PopulateReferences(node, output_map)} :
          /\ r.raised
          /\ error' = r.exc
    /\ rpc' = (IF rpc = "ready" THEN "raised" ELSE "reraised")
    /\ UNCHANGED <<node, node0, segs, rm, list_references, output_map, expandVars, valVars, sandboxVars, auxVars>>

NextPopulate == Populate \/ PopulateRaise

SpecPopulate == InitPopulate /\ [][NextPopulate]_vars

\* -------------------------------------------------------------------------
\* SpecValidate: schema_validation.Validate(properties, schema_name,
\* 'template', imports) as schema_validation_test.py calls it, imports
\* mapping the name of the schema file to its text
\* -------------------------------------------------------------------------
DefName == <<"d">>
FileF == <<"f">>
RefString == StrV(BuildReference(NameZ, PathS))

IntegerDefault(n) == [type |-> "integer", default |-> IntV(n)]
TypeInteger == [type |-> "integer"]

\* two properties with defaults, the second one required
SchemaDefaults ==
    [properties |-> (NameA :> IntegerDefault(1)) @@ (NameB :> IntegerDefault(2)),
     required |-> ListV(<<StrV(NameB)>>)]
\* a default that is not of the type asked for
SchemaInvalidDefault ==
    [properties |-> (NameA :> [type |-> "integer", default |-> StrV(<<"x">>)])]
\* a property that refers to a definition, with and without a default there
SchemaRef(target) ==
    [properties |-> (NameA :> [ref |-> DefName]), definitions |-> (DefName :> target)]
\* an object with a required member that has a default
SchemaNested ==
    [properties |-> (NameA :> [type |-> "object",
                               properties |-> (NameB :> IntegerDefault(2)),
                               required |-> ListV(<<StrV(NameB)>>)])]
\* a list of objects whose member has a default
SchemaItems ==
    [properties |-> (NameA :> [type |-> "array",
                               items |-> [properties |-> (NameB :> IntegerDefault(2))]])]
SchemaPlain == [properties |-> (NameA :> TypeInteger) @@ (NameB :> TypeInteger)]
\* schemas the meta-schema or the imports schema rejects
SchemaBadType == [properties |-> (NameA :> [type |-> "int", default |-> IntV(1)])]
SchemaBadImports ==
    [imports |-> StrV(<<"x">>), required |-> StrV(<<"x">>),
     properties |-> (NameA :> IntegerDefault(1))]
\* a schema that imports the file f and requires a
SchemaImports ==
    [imports |-> ListV(<<MapV(KeyPath :> StrV(FileF))>>),
     required |-> ListV(<<StrV(NameA)>>)]

Schemas ==
    {SchemaDefaults, SchemaInvalidDefault, SchemaRef(TypeInteger),
     SchemaRef(IntegerDefault(1)), SchemaNested, SchemaItems, SchemaPlain,
     SchemaBadType, SchemaBadImports, SchemaImports}

SchemaFile(schema) == LegacyEntry([k |-> "schema", schema |-> schema])

ValidateImports ==
    {MapV(SchemaName(TypeT) :> SchemaFile(sch)) : sch \in Schemas}
    \cup {MapV((SchemaName(TypeT) :> SchemaFile(SchemaImports))
               @@ (FileF :> LegacyEntry([k |-> "null"]))),
          MapV(SchemaName(TypeT) :> LegacyEntry([k |-> "null"])),
          MapV(<<>>)}

ValidateInputs ==
    {None, MapV(<<>>),
     MapV(NameA :> IntV(5)), MapV(NameB :> IntV(5)),
     MapV(NameA :> StrV(<<"x">>)),
     MapV(NameA :> RefString),
     MapV((NameA :> RefString) @@ (NameB :> StrV(<<"x">>))),
     MapV(NameA :> MapV(KeyK :> RefString)),
     MapV(NameA :> MapV(KeyK :> IntV(1))),
     MapV(NameA :> ListV(<<MapV(<<>>)>>)),
     MapV(NameA :> StrV(REF_PREFIX_PATTERN \o NameZ))}

Orders == {<<NameA, NameB>>, <<NameB, NameA>>}

InitValidate ==
    /\ pc = "idle"
    /\ yaml_config = None
    /\ outputs = FALSE
    /\ validate_schema = TRUE
    /\ stack = <<>>
    /\ result = NoResult
    /\ RefIdle
    /\ error = None
    /\ imports \in ValidateImports
    /\ properties0 \in ValidateInputs
    /\ user_properties = properties0
    /\ errors = {}
    /\ order \in Orders
    /\ vpc = "start"
    /\ SandboxIdle
    /\ AuxIdle

validateFrame == <<pc, yaml_config, imports, outputs, validate_schema, stack,
                   rpc, node, node0, segs, rm, list_references, output_map,
                   properties0, order, sandboxVars, auxVars>>

schema_name == SchemaName(TypeT)
template_name == TypeT
raw_schema == imports.m[schema_name].content

\* "if schema_name not in imports: raise ValidationErrors(...)"
ValidateMissing ==
    /\ vpc = "start"
    /\ schema_name \notin DOMAIN imports.m
    /\ error' = ValidationErrors(schema_name, template_name,
                                 {[kind |-> "text", text |-> "Could not find schema file."]},
                                 FALSE)
    /\ vpc' = "raised"
    /\ UNCHANGED <<validateFrame, result, user_properties, errors>>

\* "if not schema: return properties"
ValidateEmpty ==
    /\ vpc = "start"
    /\ schema_name \in DOMAIN imports.m
    /\ raw_schema.k # "schema"
    /\ user_properties' = PropertiesOrEmpty(user_properties)
    /\ result' = Returned(user_properties')
    /\ vpc' = "returned"
    /\ UNCHANGED <<validateFrame, error, errors>>

\* _ValidateSchema raises the schema errors
ValidateSchemaRaise ==
    /\ vpc = "start"
    /\ schema_name \in DOMAIN imports.m
    /\ raw_schema.k = "schema"
    /\ \E se \in {ValidateSchemaErrors(raw_schema.schema, ValidatingImports(raw_schema.schema))} :
          /\ se # {}
          /\ error' = ValidationErrors(schema_name, template_name, se, TRUE)
    /\ vpc' = "raised"
    /\ UNCHANGED <<validateFrame, result, user_properties, errors>>

\* _ValidateSchema returns; the imports the schema asks for are looked up
ValidateSchemaOk ==
    /\ vpc = "start"
    /\ schema_name \in DOMAIN imports.m
    /\ raw_schema.k = "schema"
    /\ ValidateSchemaErrors(raw_schema.schema, ValidatingImports(raw_schema.schema)) = {}
    /\ user_properties' = PropertiesOrEmpty(user_properties)
    /\ errors' = (IF ValidatingImports(raw_schema.schema)
                  THEN ImportsMissing(raw_schema.schema, imports) ELSE {})
    /\ vpc' = "checked"
    /\ UNCHANGED <<validateFrame, result, error>>

\* "list(DEFAULT_SETTER(schema).iter_errors(properties))"
ValidateSetDefaults ==
    /\ vpc = "checked"
    /\ user_properties' = DefaultSetter(raw_schema.schema, user_properties, order)
    /\ vpc' = "defaulted"
    /\ UNCHANGED <<validateFrame, result, error, errors>>

\* "errors.extend(_FilterReferences(VALIDATOR(schema).iter_errors(properties)))"
\* and "if errors: raise ValidationErrors(...)", or HasReference raises
ValidateRaise ==
    /\ vpc = "defaulted"
    /\ \E va \in {ValidateDefaulted(user_properties, raw_schema.schema, schema_name,
                                    template_name, errors)} :
          /\ va.raised
          /\ error' = va.exc
          /\ errors' = (IF va.exc.type = "ValidationErrors" THEN va.exc.errors ELSE errors)
    /\ vpc' = "raised"
    /\ UNCHANGED <<validateFrame, result, user_properties>>

\* "return properties"
ValidateReturn ==
    /\ vpc = "defaulted"
    /\ \E va \in {ValidateDefaulted(user_properties, raw_schema.schema, schema_name,
                                    template_name, errors)} :
          /\ ~va.raised
          /\ result' = Returned(va.v)
    /\ vpc' = "returned"
    /\ UNCHANGED <<validateFrame, error, user_properties, errors>>

NextValidate ==
    \/ ValidateMissing
    \/ ValidateEmpty
    \/ ValidateSchemaRaise
    \/ ValidateSchemaOk
    \/ ValidateSetDefaults
    \/ ValidateRaise
    \/ ValidateReturn

SpecValidate == InitValidate /\ [][NextValidate]_vars

\* -------------------------------------------------------------------------
\* Properties of the reference engine (SpecRef)
\* -------------------------------------------------------------------------
\* the (name, path) pairs of the references a list of segments spells, in order
RECURSIVE RefsOf(_)
RefsOf(ss) ==
    IF ss = <<>> THEN <<>>
    ELSE (IF Head(ss).k = "ref" THEN << <<Head(ss).name, Head(ss).path>> >> ELSE <<>>)
           \o RefsOf(Tail(ss))

WellFormed(ss) == \A i \in 1..Len(ss) : ss[i] \notin BrokenTexts

IsPrefix(p, q) == Len(p) <= Len(q) /\ SubSeq(q, 1, Len(p)) = p

LastReference == list_references.l[Len(list_references.l)]

\* the output map holds name, and path selects nothing in output_map[name]
UnresolvedPath(name, path) ==
    /\ output_map.t = "map"
    /\ name \in DOMAIN output_map.m
    /\ JsonPath(output_map.m[name], path).k # "list"

\* the output map holds name, and path selects an integer in output_map[name]
ResolvesToInt(name, path) ==
    /\ output_map.t = "map"
    /\ name \in DOMAIN output_map.m
    /\ JsonPath(output_map.m[name], path).k = "list"
    /\ ExtractWithJsonPath(output_map.m[name], name, path, FALSE).value.t = "int"

\* str(i) for the integers the output maps hold
StrOfInt(i) == CASE i = 0 -> <<"0">> [] i = 1 -> <<"1">> [] i = 2 -> <<"2">>
                 [] i = 3 -> <<"3">> [] OTHER -> <<"?">>

\* C6: once the traversal of a string has returned, every reference of the
\* string whose name is not a key of the output map is still in the result,
\* character for character, whatever else was substituted.
C6_UnknownNameVerbatim ==
    rpc = "returned" =>
        \A i \in 1..Len(segs) :
            (/\ segs[i].k = "ref"
             /\ (output_map.t = "null" \/ segs[i].name \notin DOMAIN output_map.m))
            => Contains(node, BuildReference(segs[i].name, segs[i].path))

\* the errors a reference with a known name and a path that selects nothing
\* is answered with
NoValueErrors(name, path, texts) ==
    {ExpansionReferenceError(BuildReference(name, path), t) : t \in texts}

PathErrorRaised(texts) ==
    \A i \in 1..Len(list_references.l) :
        UnresolvedPath(list_references.l[i][1], list_references.l[i][2]) =>
            /\ rpc \in {"raised", "failed"}
            /\ i = Len(list_references.l)
            /\ error \in NoValueErrors(list_references.l[i][1],
                                       list_references.l[i][2], texts)
            /\ (rpc = "failed" =>
                    result = Raised(ExpansionError(OfText("config"), error.message)))

\* C7 (as stated): a reference found in the string whose name is a key of the
\* output map and whose path selects no value there stops the traversal with
\* the reference error 'No value found.' that names the reference, and
\* Expand fails with it; the traversal never goes on past such a reference.
C7_NoValueFound == rpc # "idle" => PathErrorRaised({"No value found."})

\* C7 (amended): the same, the message being 'No value found.' or, when the
\* JSONPath evaluation itself raised, that exception's message ('list index
\* out of range' for an index equal to the length of the list).
C7_PathError ==
    rpc # "idle" => PathErrorRaised({"No value found.", "list index out of range"})

C7_Witness ==
    /\ rpc = "failed"
    /\ list_references.l # <<>>
    /\ UnresolvedPath(LastReference[1], LastReference[2])
    /\ error.message.text = "No value found."
    /\ result.k = "raised"

\* C9: a reference that resolves to an integer does not stop the traversal,
\* and the integer's decimal writing is in the string afterwards.
C9_IntegerStringified ==
    (rpc # "idle" /\ list_references.l # <<>>
        /\ ResolvesToInt(LastReference[1], LastReference[2]))
    => /\ rpc \in {"scan", "returned"}
       /\ Contains(node, StrOfInt(ExtractWithJsonPath(output_map.m[LastReference[1]],
                                                      LastReference[1],
                                                      LastReference[2], FALSE).value.i))

\* C10: on a string of well-formed references, the references FindReference
\* has returned so far are the first references of the string, in order and
\* one each, name and path of the matcher are those of the last one, no
\* 'Malformed reference.' is raised, and when FindReference returns False all
\* the references of the string have been returned.
C10_FindReference ==
    (rpc # "idle" /\ WellFormed(segs)) =>
        /\ IsPrefix(list_references.l, RefsOf(segs))
        /\ (list_references.l # <<>> => <<rm.name, rm.path>> = LastReference)
        /\ (rpc = "returned" => list_references.l = RefsOf(segs))
        /\ (error # None => error.message.text # "Malformed reference.")

C10_Witness ==
    /\ rpc = "returned"
    /\ WellFormed(segs)
    /\ Len(list_references.l) = 2
    /\ \E i \in 1..2 : list_references.l[i][2] = PathCall

\* the positions of content at which '$(ref.' starts
PrefixAt(c) == {p \in 1..Len(c) : StartsAt(c, REF_PREFIX_PATTERN, p)}

\* the depth of parentheses after the characters e..q of c, the '(' of '$('
\* counted
ParenDepth(c, e, q) ==
    1 + Cardinality({j \in e..q : c[j] = "("}) - Cardinality({j \in e..q : c[j] = ")"})

\* the '.' positions that may end the name of a reference starting at p
DotsAfter(c, p) == {e \in (p + Len(REF_PREFIX_PATTERN))..Len(c) : c[e] = "."}

\* the parentheses opened by '$(' are balanced by a ')' after the '.' at e
ClosedAfter(c, e) == \E q \in e..Len(c) : ParenDepth(c, e, q) = 0

\* a complete reference follows the prefix at p: a name, a '.', and a path up
\* to the ')' that balances '$('
CompleteAt(c, p) == DotsAfter(c, p) # {} /\ ClosedAfter(c, Min(DotsAfter(c, p)))

\* the prefix at p is followed, on one line, by a name, a '.' and later a ')'
OnOneLine(c, p) ==
    \E e \in DotsAfter(c, p) : \E q \in (e + 1)..Len(c) :
        /\ c[q] = ")"
        /\ \A j \in (p + Len(REF_PREFIX_PATTERN))..(q - 1) : j # e => c[j] # "\n"

\* what FindReference does with the content c of the matcher
Malformed(c) == FindReference(ReferenceMatcher(c)).ret = "raise"
MalformedError(c) == ExpansionReferenceError(c, "Malformed reference.")

\* the content has the prefix, and no complete reference follows its first
\* occurrence
NoCompleteReference(c) == PrefixAt(c) # {} /\ ~CompleteAt(c, Min(PrefixAt(c)))

\* the content has the prefix, and either no occurrence of it is followed on
\* one line by NAME, '.', ')' or the first such occurrence is never balanced
NoCompleteReferenceOnLine(c) ==
    /\ PrefixAt(c) # {}
    /\ LET P == {p \in PrefixAt(c) : OnOneLine(c, p)}
       IN  P = {} \/ ~ClosedAfter(c, Min(DotsAfter(c, Min(P))))

MalformedRaised ==
    rpc \in {"raised", "failed"} /\ error.message.text = "Malformed reference."

\* C11 (as stated): FindReference raises 'Malformed reference.', echoing the
\* content, exactly when the content holds the prefix '$(ref.' with no
\* complete reference after it (no '.PATH)' after the name, or parentheses
\* never balanced); content without the prefix yields False and no error.
C11_MalformedExactly ==
    /\ rpc = "scan" =>
          /\ Malformed(rm.content) <=> NoCompleteReference(rm.content)
          /\ PrefixAt(rm.content) = {} => FindReference(rm).ret = "False"
    /\ MalformedRaised =>
          error = MalformedError(rm.content) /\ NoCompleteReference(rm.content)
    /\ rpc = "returned" => PrefixAt(rm.content) = {}

\* C11 (amended): the same, a complete reference being one whose name and
\* whose '.' ... ')' are each on one line: a reference broken by a line end
\* is malformed, or skipped when a later one on the line is complete.
C11_MalformedOnLine ==
    /\ rpc = "scan" =>
          /\ Malformed(rm.content) <=> NoCompleteReferenceOnLine(rm.content)
          /\ PrefixAt(rm.content) = {} => FindReference(rm).ret = "False"
    /\ MalformedRaised =>
          error = MalformedError(rm.content) /\ NoCompleteReferenceOnLine(rm.content)
    /\ rpc = "returned" => PrefixAt(rm.content) = {}

C11_Witness ==
    /\ MalformedRaised
    /\ list_references.l # <<>>
    /\ rm.content # node0
    /\ error = MalformedError(rm.content)
    /\ NoCompleteReferenceOnLine(rm.content)

\* -------------------------------------------------------------------------
\* Properties of PopulateReferences (SpecPopulate)
\* -------------------------------------------------------------------------
\* C12: PopulateReferences applied to what PopulateReferences returned, with
\* the same output map, returns it unchanged (and does not raise).
C12_Idempotent ==
    /\ rpc = "repopulated" => node = node0
    /\ rpc # "reraised"

\* -------------------------------------------------------------------------
\* Properties of Expand (Spec)
\* -------------------------------------------------------------------------
\* Expand returned the dump of config and layout
Succeeded == pc = "done" /\ result.k = "returned" /\ result.value.t = "yaml"

ConfigResources == result.value.config.resources
LayoutResources == result.value.layout.resources

\* the type is a key of the supplied imports
IsImported(type) == imports.t = "map" /\ type \in DOMAIN imports.m

\* the resources the template of this type emitted
Emits(type) ==
    IF imports.m[type].content.k = "doc"
           /\ "resources" \in DOMAIN imports.m[type].content.doc
           /\ imports.m[type].content.doc.resources.t = "list"
    THEN imports.m[type].content.doc.resources.l
    ELSE <<>>

NamesTypes(rs) == [i \in 1..Len(rs) |-> <<rs[i].name, rs[i].type>>]

\* the primitive nodes of a list of layout nodes, in depth-first pre-order
RECURSIVE Flatten(_)
RECURSIVE FlattenNode(_)
Flatten(ls) ==
    IF ls = <<>> THEN <<>> ELSE FlattenNode(Head(ls)) \o Flatten(Tail(ls))

FlattenNode(n) ==
    IF IsImported(n.type)
    THEN IF "resources" \in DOMAIN n THEN Flatten(n.resources) ELSE <<>>
    ELSE << <<n.name, n.type>> >>

\* the children of every template node are the resources its template
\* emitted, in that order
RECURSIVE ChildrenAsEmitted(_)
ChildrenAsEmitted(n) ==
    IsImported(n.type) =>
        IF "resources" \in DOMAIN n
        THEN /\ NamesTypes(n.resources) = NamesTypes(Emits(n.type))
             /\ \A i \in 1..Len(n.resources) : ChildrenAsEmitted(n.resources[i])
        ELSE Emits(n.type) = <<>>

\* the strings of a YAML value
RECURSIVE StringsOf(_)
StringsOf(v) ==
    CASE v.t = "str" -> {v.s}
      [] v.t = "list" -> UNION {StringsOf(v.l[i]) : i \in 1..Len(v.l)}
      [] v.t = "map" -> UNION {StringsOf(v.m[k]) : k \in DOMAIN v.m}
      [] OTHER -> {}

\* the names of the complete references of a string, left to right
RECURSIVE ReferenceNames(_)
ReferenceNamesAfter(fr) ==
    IF fr.ret = "True" THEN {fr.rm.name} \cup ReferenceNames(fr.rm.content) ELSE {}

ReferenceNames(c) == ReferenceNamesAfter(FindReference(ReferenceMatcher(c)))

\* the strings the wiring of the root went over: the properties of
\* config.resources and the values of layout.outputs
WiredStrings ==
    UNION {StringsOf(ConfigResources[i].properties) :
              i \in {j \in 1..Len(ConfigResources) :
                        "properties" \in DOMAIN ConfigResources[j]}}
    \cup (IF "outputs" \in DOMAIN result.value.layout
          THEN StringsOf(ListV(result.value.layout.outputs)) ELSE {})

\* the output map the root was wired with
RootOutputMap == BuildOutputMapFn(LayoutResources)

\* C13: after a successful Expand with outputs on, every wired string of the
\* emitted output either has no '$(ref.' in it or has a complete reference
\* whose name is no key of the output map.
C13_NoResolvableLeft ==
    (Succeeded /\ outputs) =>
        \A c \in WiredStrings :
            \/ PrefixAt(c) = {}
            \/ \E n \in ReferenceNames(c) : n \notin DOMAIN RootOutputMap

\* C1: after a successful Expand, config.resources is the sequence of the
\* primitive resources of layout.resources in depth-first pre-order, and the
\* children of each template node are in the order the template emitted them.
C1_PreOrder ==
    Succeeded =>
        /\ NamesTypes(ConfigResources) = Flatten(LayoutResources)
        /\ \A i \in 1..Len(LayoutResources) : ChildrenAsEmitted(LayoutResources[i])

C1_Witness ==
    /\ Succeeded
    /\ Len(ConfigResources) >= 3
    /\ \E i \in 1..Len(LayoutResources) :
          /\ "resources" \in DOMAIN LayoutResources[i]
          /\ \E j \in 1..Len(LayoutResources[i].resources) :
                "resources" \in DOMAIN LayoutResources[i].resources[j]

\* C2: after a successful Expand, every resource of config.resources has a
\* name and a type, and the type is not a key of the imports.
C2_OnlyPrimitives ==
    Succeeded =>
        \A i \in 1..Len(ConfigResources) :
            /\ "name" \in DOMAIN ConfigResources[i]
            /\ "type" \in DOMAIN ConfigResources[i]
            /\ ~IsImported(ConfigResources[i].type)

C2_Witness ==
    /\ Succeeded
    /\ ConfigResources # <<>>
    /\ \E i \in 1..Len(LayoutResources) :
          IsImported(LayoutResources[i].type) /\ "resources" \in DOMAIN LayoutResources[i]

\* two resources of the list have the same name
HasDuplicate(rs, n) ==
    \E i, j \in 1..Len(rs) :
        /\ i < j
        /\ "name" \in DOMAIN rs[i] /\ "name" \in DOMAIN rs[j]
        /\ rs[i].name = n /\ rs[j].name = n

HasDuplicates(rs) == \E i \in 1..Len(rs) : "name" \in DOMAIN rs[i] /\ HasDuplicate(rs, rs[i].name)

\* the YAML parses to a mapping and the imports have the form the loader reads
WellFormedInput == yaml_config.t = "doc" /\ Redirect(imports) = None

RootList == RootTarget(yaml_config.d).resources.l

NotUniqueError(e, scope) ==
    /\ e # None
    /\ e.type = "ExpansionError"
    /\ e.message.msg.text = "Resource name is not unique."
    /\ e.message.msg.scope = scope

\* the primitive resources the input expands to, templates unfolded at most
\* fuel deep
RECURSIVE Emitted(_, _)
RECURSIVE EmittedOne(_, _)
Emitted(rs, fuel) ==
    IF rs = <<>> THEN <<>> ELSE EmittedOne(Head(rs), fuel) \o Emitted(Tail(rs), fuel)

EmittedOne(r, fuel) ==
    IF IsImported(r.type) /\ DOMAIN imports.m # {}
    THEN IF fuel = 0 THEN <<>> ELSE Emitted(Emits(r.type), fuel - 1)
    ELSE <<r>>

\* the template about to be expanded emits a list with two equal names
NextEmitsDuplicates ==
    /\ pc = "walk"
    /\ Pending(Top)
    /\ Len(stack) <= MaxDepth
    /\ "name" \in DOMAIN NextResource /\ "type" \in DOMAIN NextResource
    /\ IsImported(NextResource.type)
    /\ ~ExpandTemplate(NextResource, imports, validate_schema).raised
    /\ HasDuplicates(Emits(NextResource.type))

C3_State ==
    /\ (pc = "done" /\ WellFormedInput /\ HasDuplicates(RootList))
           => /\ NotUniqueError(error, ConfigName)
              /\ HasDuplicate(RootList, error.message.msg.name)
              /\ result = Raised(ExpansionError(OfText("config"), error.message))
    /\ (pc \in {"raising", "done"} /\ error # None /\ error.type = "ExpansionError"
            /\ "text" \in DOMAIN error.message.msg
            /\ error.message.msg.text = "Resource name is not unique.")
           => IF error.message.msg.scope = ConfigName
              THEN HasDuplicate(RootList, error.message.msg.name)
              ELSE /\ IsImported(error.message.msg.scope)
                   /\ HasDuplicate(Emits(error.message.msg.scope), error.message.msg.name)
    /\ \A k \in 1..Len(stack) : ~HasDuplicates(stack[k].target.resources.l)
    /\ Succeeded => NamesTypes(ConfigResources) = NamesTypes(Emitted(RootList, MaxDepth + 1))

C3_Step ==
    NextEmitsDuplicates =>
        /\ pc' = "raising"
        /\ NotUniqueError(error', NextResource.type)
        /\ HasDuplicate(Emits(NextResource.type), error'.message.msg.name)

\* C3: on parseable YAML and well-formed imports, a resource list with two
\* equal names makes Expand fail with "Resource name '<n>' is not unique in
\* <scope>", scope being 'config' for the root list and the type of the
\* template for a list a template emitted; the error is raised for no other
\* list, no list with equal names is ever walked, and resources with equal
\* names in different lists all reach config.resources.
C3_UniqueNames == [](pc # "idle" => C3_State) /\ [][C3_Step]_vars

C3_Witness ==
    /\ pc = "done"
    /\ NotUniqueError(error, TypeT)
    /\ result.k = "raised"

MissingTemplate(r) ==
    /\ "name" \in DOMAIN r /\ "type" \in DOMAIN r
    /\ IsTemplate(r.type)
    /\ ~IsImported(r.type)

\* C5: a resource whose type ends in .py or .jinja and is not a key of the
\* imports makes Expand fail with 'Unable to find source file ... in
\* imports'; it never reaches config.resources.
C5_MissingImportFails ==
    /\ Succeeded => \A i \in 1..Len(ConfigResources) : ~MissingTemplate(ConfigResources[i])
    /\ (pc = "done" /\ WellFormedInput /\ RootList # <<>> /\ MissingTemplate(RootList[1])
            /\ ~HasDuplicates(RootList))
           => /\ result.k = "raised"
              /\ error.message.msg = Msg("Unable to find source file in imports.")

\* the string a resource has under properties.k, if any
PropertyK(r) ==
    IF "properties" \in DOMAIN r /\ r.properties.t = "map" /\ KeyK \in DOMAIN r.properties.m
           /\ r.properties.m[KeyK].t = "str"
    THEN r.properties.m[KeyK].s ELSE <<>>

\* the root list is a template t that emits a primitive of its own name and
\* declares outputs, and a primitive p whose property refers to a path of
\* that name the outputs of the template do not have
Shadowing(t, p) ==
    /\ IsImported(t.type)
    /\ ~ExpandTemplate(t, imports, validate_schema).raised
    /\ "outputs" \in DOMAIN imports.m[t.type].content.doc
    /\ \E i \in 1..Len(Emits(t.type)) :
          /\ Emits(t.type)[i].name = t.name
          /\ ~IsImported(Emits(t.type)[i].type)
    /\ ~IsImported(p.type)
    /\ PropertyK(p) = BuildReference(t.name, PathT)
    /\ JsonPath(MapV(OutputValueMap(imports.m[t.type].content.doc.outputs)), PathT).k
           = "False"

\* C8: when a reference names a template output that a primitive resource
\* shadows, and its path is not one of the outputs of the template, Expand
\* succeeds and the reference is still in the property.
C8_ShadowingTolerated ==
    (/\ pc = "done"
     /\ outputs
     /\ WellFormedInput
     /\ Len(RootList) = 2
     /\ \A i \in 1..2 : "name" \in DOMAIN RootList[i] /\ "type" \in DOMAIN RootList[i]
     /\ Shadowing(RootList[1], RootList[2]))
    => /\ Succeeded
       /\ PropertyK(ConfigResources[Len(ConfigResources)]) = PropertyK(RootList[2])

\* no node of a list of layout nodes, at any depth, has the key 'outputs'
RECURSIVE NoOutputsKey(_)
NoOutputsKey(ls) ==
    \A i \in 1..Len(ls) :
        /\ "outputs" \notin DOMAIN ls[i]
        /\ ("resources" \in DOMAIN ls[i] => NoOutputsKey(ls[i].resources))

\* C14: with outputs off, config.resources holds the primitive resources as
\* they were written (references and malformed references included), no
\* reference error is raised, and neither the root layout nor any node under
\* it has an 'outputs' key.
C14_OutputsOff ==
    /\ (pc \in {"raising", "done"} /\ ~outputs /\ error # None)
           => error.type # "ExpansionReferenceError"
    /\ (Succeeded /\ ~outputs) =>
           /\ ConfigResources = Emitted(RootList, MaxDepth + 1)
           /\ "outputs" \notin DOMAIN result.value.layout
           /\ NoOutputsKey(LayoutResources)

C14_Witness ==
    /\ Succeeded
    /\ ~outputs
    /\ \E i \in 1..Len(ConfigResources) : ConfigResources[i] = PrimBMalformed
    /\ \E j \in 1..Len(LayoutResources) :
          /\ IsImported(LayoutResources[j].type)
          /\ "outputs" \in DOMAIN imports.m[LayoutResources[j].type].content.doc
          /\ "resources" \in DOMAIN LayoutResources[j]


\* -------------------------------------------------------------------------
\* C15
\* -------------------------------------------------------------------------
\* the schema a property is judged by: the target of its $ref where it has one
DeclaredSchema(sub, root) ==
    IF "ref" \in DOMAIN sub THEN root.definitions[sub.ref] ELSE sub

\* the instance plus the declared defaults of its absent properties, at
\* the top level and below properties and items
RECURSIVE WithDeclaredDefaults(_, _, _)
WithDeclaredDefaults(schema, instance, root) ==
    IF instance.t = "map" /\ "properties" \in DOMAIN schema
    THEN MapV([k \in DOMAIN instance.m
                   \cup {p \in DOMAIN schema.properties :
                            "default" \in DOMAIN DeclaredSchema(schema.properties[p], root)} |->
               IF k \in DOMAIN instance.m
               THEN IF k \in DOMAIN schema.properties
                    THEN WithDeclaredDefaults(DeclaredSchema(schema.properties[k], root),
                                              instance.m[k], root)
                    ELSE instance.m[k]
               ELSE DeclaredSchema(schema.properties[k], root).default])
    ELSE IF instance.t = "list" /\ "items" \in DOMAIN schema
    THEN ListV([n \in DOMAIN instance.l |->
                   WithDeclaredDefaults(schema.items, instance.l[n], root)])
    ELSE instance

ValidateSucceeded == vpc = "returned" /\ raw_schema.k = "schema"

\* C15: after a successful Validate the returned properties are the input
\* plus exactly the declared defaults of the absent properties, at the top
\* level and below properties/items, whatever else the input supplies and
\* whatever the order the properties are visited in.
C15_DeclaredDefaults ==
    ValidateSucceeded =>
        result.value = WithDeclaredDefaults(raw_schema.schema,
                                            PropertiesOrEmpty(properties0),
                                            raw_schema.schema)


\* -------------------------------------------------------------------------
\* C16
\* -------------------------------------------------------------------------
PropertyErrorsRaised ==
    /\ vpc = "raised"
    /\ error.type = "ValidationErrors"
    /\ ~error.is_schema_error
    /\ schema_name \in DOMAIN imports.m

\* the top-level properties the input leaves out and the schema declares a
\* default for
DefaultedProperties ==
    IF "properties" \in DOMAIN raw_schema.schema
    THEN {p \in DOMAIN raw_schema.schema.properties :
             /\ p \notin DOMAIN PropertiesOrEmpty(properties0).m
             /\ "default" \in DOMAIN DeclaredSchema(raw_schema.schema.properties[p],
                                                    raw_schema.schema)}
    ELSE {}

DefaultOf(p) == DeclaredSchema(raw_schema.schema.properties[p], raw_schema.schema).default

\* a 'required' error on the input itself for a property that has a default
RequiredErrorOnDefaulted(e) ==
    /\ "kind" \in DOMAIN e
    /\ e.kind = "required"
    /\ e.path = <<>>
    /\ e.name \in DefaultedProperties

\* C16: the constraints are judged on the input with the defaults in it: a
\* required property that the input leaves out and that has a default gives
\* no 'required' error, and a default that violates the schema is reported
\* as the property error a supplied value would give.
C16_DefaultsBeforeConstraints ==
    /\ PropertyErrorsRaised =>
          \A e \in error.errors : ~RequiredErrorOnDefaulted(e)
    /\ (vpc \in {"raised", "returned"}
           /\ schema_name \in DOMAIN imports.m
           /\ raw_schema.k = "schema"
           /\ (vpc = "raised" => PropertyErrorsRaised)) =>
          \A p \in DefaultedProperties :
              LET supplied == IterErrors(raw_schema.schema.properties[p], DefaultOf(p),
                                         <<p>>, raw_schema.schema)
              IN  supplied # {} => vpc = "raised" /\ supplied \subseteq error.errors


\* -------------------------------------------------------------------------
\* C17
\* -------------------------------------------------------------------------
\* the constraint errors of the properties Validate judged
ConstraintErrors == IterErrors(raw_schema.schema, user_properties, <<>>, raw_schema.schema)

\* the errors Validate reported: those of the ValidationErrors, or none
ReportedErrors == IF vpc = "raised" THEN error.errors ELSE {}

\* the offending value is itself a string that contains a reference
IsReferenceString(v) == v.t = "str" /\ HasReference(v.s).ret = "True"

\* Validate judged the constraints and HasReference raised nothing
ConstraintsJudged ==
    /\ schema_name \in DOMAIN imports.m
    /\ raw_schema.k = "schema"
    /\ \/ vpc = "returned"
       \/ PropertyErrorsRaised

\* C17: a constraint error is dropped exactly when its offending value is
\* itself a string containing a reference; an error on a sibling, or on an
\* object or list that has a reference among its members, is reported.
C17_DropsReferenceStringsOnly ==
    ConstraintsJudged =>
        \A e \in ConstraintErrors :
            e \in ReportedErrors <=> ~IsReferenceString(e.instance)


\* -------------------------------------------------------------------------
\* C18
\* -------------------------------------------------------------------------
ValidationErrorsRaised == vpc = "raised" /\ error.type = "ValidationErrors"

\* what the imports micro-schema and the meta-schema find in the schema file
SchemaFileErrors ==
    IF schema_name \in DOMAIN imports.m /\ raw_schema.k = "schema"
    THEN (IF ValidatingImports(raw_schema.schema)
          THEN ImportSchemaErrors(raw_schema.schema) ELSE {})
         \cup MetaErrors(raw_schema.schema, <<>>)
    ELSE {}

LegacyImports == imports.t = "map" /\ \E k \in DOMAIN imports.m : ~imports.m[k].dict

\* the configuration is one resource whose type is a template of the imports
OneTemplateResource ==
    /\ yaml_config.t = "doc"
    /\ Len(RootList) = 1
    /\ "name" \in DOMAIN RootList[1] /\ "type" \in DOMAIN RootList[1]
    /\ IsImported(RootList[1].type)
    /\ imports.m[RootList[1].type].content.k = "doc"

\* C19: Expand takes imports whose entries are plain content strings: the
\* template is rendered under its import name and the expansion succeeds
\* with the result the entry {path: importName, content} gives.
C19_LegacyImportsAccepted ==
    (pc = "done" /\ LegacyImports /\ OneTemplateResource /\ ~outputs) =>
        /\ Succeeded
        /\ ConfigResources = Emitted(RootList, MaxDepth + 1)


\* -------------------------------------------------------------------------
\* SpecSandbox: the module loader of sandbox_loader.py over the Expand calls
\* of one process.  Every call starts with FileAccessRedirector.redirect of
\* its imports; template code then runs import statements.
\* -------------------------------------------------------------------------
MaxCalls == 3

\* s.split(c)
RECURSIVE SplitOn(_, _)
SplitOn(s, c) ==
    IF \A n \in DOMAIN s : s[n] # c THEN <<s>>
    ELSE LET n == CHOOSE k \in DOMAIN s : s[k] = c /\ \A j \in 1..(k - 1) : s[j] # c
         IN  <<SubSeq(s, 1, n - 1)>> \o SplitOn(SubSeq(s, n + 1, Len(s)), c)

\* c.join(parts)
RECURSIVE JoinWith(_, _)
JoinWith(parts, c) ==
    IF parts = <<>> THEN <<>>
    ELSE IF Len(parts) = 1 THEN Head(parts)
    ELSE Head(parts) \o <<c>> \o JoinWith(Tail(parts), c)

\* os.path.normpath of a relative path without '..': empty and '.' components go
NormPath(path) ==
    JoinWith(SelectSeq(SplitOn(path, "/"), LAMBDA part : part # <<>> /\ part # <<".">>), "/")

\* os.path.splitext(path): the extension starts at the last '.' of the last
\* component, unless that component starts with it
SplitExt(path) ==
    LET base == SplitOn(path, "/")[Len(SplitOn(path, "/"))]
        dots == {n \in 2..Len(base) : base[n] = "."}
        cut  == IF dots = {} THEN 0
                ELSE (Len(path) - Len(base)) + (CHOOSE n \in dots : \A k \in dots : k <= n)
    IN  IF cut = 0 THEN [prefix |-> path, ext |-> <<>>]
        ELSE [prefix |-> SubSeq(path, 1, cut - 1), ext |-> SubSeq(path, cut, Len(path))]

ExtPy == <<".", "p", "y">>
ExtPyc == <<".", "p", "y", "c">>

\* "dirs = ('.'.join(parts[0:i]) for i in xrange(0, len(parts)))"
PackageNames(parts) == {JoinWith(SubSeq(parts, 1, n), ".") : n \in 0..(Len(parts) - 1)}

\* the body of "for name, entry in imports.iteritems()" for one entry
RegisterEntry(entry, registry) ==
    LET split == SplitExt(NormPath(entry.path))
        parts == SplitOn(split.prefix, "/")
    IN  IF split.ext \notin {ExtPy, ExtPyc} THEN registry
        ELSE IF \E n \in DOMAIN split.prefix : split.prefix[n] = "." THEN registry
        ELSE (JoinWith(parts, ".") :> entry.content)
             @@ [d \in PackageNames(parts) \ DOMAIN registry |-> None]
             @@ registry

\* FileAccessRedirector.redirect(imports) on the registry _IMPORTS: entries
\* are added or overwritten, nothing is taken out
RECURSIVE RegisterAll(_, _, _)
RegisterAll(imps, keys, registry) ==
    IF keys = <<>> THEN registry
    ELSE RegisterAll(imps, Tail(keys), RegisterEntry(imps[Head(keys)], registry))

Registered(imps, registry) ==
    IF imps = None THEN registry
    ELSE RegisterAll(imps.m, SetToSeq(DOMAIN imps.m), registry)

\* a loader that runs some other source
LoadModuleElsewhere(name, content) ==
    [k |-> "module", name |-> name, content |-> [k |-> "py", src |-> "elsewhere"]]

\* AllowedImportsLoader.load_module(name): a package, or the module that
\* running the content gives
LoadModule(name, content) == [k |-> "module", name |-> name, content |-> content]

ImportError(name) == [k |-> "ImportError", name |-> name]

\* module sources
SourceA == [k |-> "py", src |-> "A"]
SourceB == [k |-> "py", src |-> "B"]

FileH == <<"h", ".", "p", "y">>
FileG == <<".", "/", "g", ".", "p", "y">>
FilePH == <<"p", "/", "h", ".", "p", "y">>
ModH == <<"h">>
ModG == <<"g">>
ModP == <<"p">>
ModPH == <<"p", ".", "h">>

SandboxImports ==
    {None, MapV(<<>>),
     MapV(FileH :> Entry(FileH, SourceA)),
     MapV(FileH :> Entry(FileH, SourceB)),
     MapV(FileG :> Entry(FileG, SourceA)),
     MapV((FilePH :> Entry(FilePH, SourceB)) @@ (TypeT :> Entry(TypeT, SourceA)))}

ModuleNames == {ModH, ModG, ModP, ModPH}

InitSandbox ==
    /\ pc = "idle"
    /\ yaml_config = None
    /\ imports = None
    /\ outputs = FALSE
    /\ validate_schema = FALSE
    /\ stack = <<>>
    /\ result = NoResult
    /\ RefIdle
    /\ ValIdle
    /\ SandboxIdle
    /\ AuxIdle
    /\ error = None

\* a call of Expand begins: _Expand calls FileAccessRedirector.redirect(imports)
SandboxRedirect ==
    /\ calls < MaxCalls
    /\ \E imps \in SandboxImports :
          /\ call_imports' = imps
          /\ _IMPORTS' = Registered(imps, _IMPORTS)
    /\ calls' = calls + 1
    /\ resolved' = NoModule
    /\ UNCHANGED <<sys_modules, expandVars, refVars, valVars, auxVars>>

\* template code of the running call executes "import name": Python looks
\* in sys.modules first
SandboxImportCached ==
    /\ calls > 0
    /\ \E name \in ModuleNames :
          /\ name \in DOMAIN sys_modules
          /\ resolved' = sys_modules[name]
    /\ UNCHANGED <<calls, call_imports, _IMPORTS, sys_modules, expandVars, refVars, valVars, auxVars>>

\* ... then asks AllowedImportsHandler.find_module, whose loader registers
\* the module
SandboxImportLoad ==
    /\ calls > 0
    /\ \E name \in ModuleNames :
          /\ name \notin DOMAIN sys_modules
          /\ name \in DOMAIN _IMPORTS
          /\ resolved' = LoadModule(name, _IMPORTS[name])
          /\ sys_modules' = (name :> LoadModule(name, _IMPORTS[name])) @@ sys_modules
    /\ UNCHANGED <<calls, call_imports, _IMPORTS, expandVars, refVars, valVars, auxVars>>

\* ... and no finder knows the name
SandboxImportError ==
    /\ calls > 0
    /\ \E name \in ModuleNames :
          /\ name \notin DOMAIN sys_modules
          /\ name \notin DOMAIN _IMPORTS
          /\ resolved' = ImportError(name)
    /\ UNCHANGED <<calls, call_imports, _IMPORTS, sys_modules, expandVars, refVars, valVars, auxVars>>

NextSandbox ==
    \/ SandboxRedirect
    \/ SandboxImportCached
    \/ SandboxImportLoad
    \/ SandboxImportError

SpecSandbox == InitSandbox /\ [][NextSandbox]_vars

\* -------------------------------------------------------------------------
\* C20
\* -------------------------------------------------------------------------
\* the registry the imports of the running call give by themselves
OwnRegistry == Registered(call_imports, <<>>)

\* C20: what template code of a call resolves is decided by the imports of
\* that call alone: a module is resolved only under a name its imports
\* register and with the content they give it, whatever earlier calls
\* registered or loaded.
C20_SandboxPerCall ==
    /\ resolved.k = "module" =>
          /\ resolved.name \in DOMAIN OwnRegistry
          /\ resolved.content = OwnRegistry[resolved.name]
    /\ resolved.k = "ImportError" => resolved.name \notin DOMAIN OwnRegistry


\* -------------------------------------------------------------------------
\* SpecExtract: one call _ExtractWithJsonPath(output_map[rm.name], rm.name,
\* rm.path, raise_exception=True), as _TraverseNode makes it
\* -------------------------------------------------------------------------
MaxItems == 3

KeyA == <<"a">>
PathA == <<"a">>
PathAWildcard == <<"a", "[", "*", "]">>
PathAFirst == <<"a", "[", "0", "]">>
PathASecond == <<"a", "[", "1", "]">>
PathAS == <<"a", ".", "s">>

ExtractItems == {StrV(<<"o", "n", "e">>), StrV(<<"t", "w", "o">>), ListV(<<IntV(1), IntV(2)>>)}
ExtractPaths == {PathA, PathAWildcard, PathAFirst, PathASecond, PathAS}

InitExtract ==
    /\ ExpandIdle
    /\ ValIdle
    /\ SandboxIdle
    /\ AuxIdle
    /\ segs = <<>>
    /\ node0 = <<>>
    /\ node = <<>>
    /\ \E p \in ExtractPaths : rm = [content |-> <<>>, name |-> NameA, path |-> p]
    /\ list_references = None
    /\ \E items \in SeqsUpTo(ExtractItems, MaxItems) :
          output_map = MapV(NameA :> MapV(KeyA :> ListV(items)))
    /\ rpc = "extract"
    /\ error = None

ExtractCall == ExtractWithJsonPath(output_map.m[rm.name], rm.name, rm.path, TRUE)

\* "return result[0]" or "return result"
ExtractReturn ==
    /\ rpc = "extract"
    /\ \E ex \in {ExtractCall} :
          /\ ~ex.raised
          /\ ref_value' = [k |-> "value", v |-> ex.value]
    /\ rpc' = "extracted"
    /\ UNCHANGED <<node, node0, segs, rm, list_references, output_map, error,
                   expandVars, valVars, sandboxVars, driver, invocations, templateVars, permuteVars>>

\* "raise ExpansionReferenceError(_BuildReference(name, path), e.message)"
ExtractRaise ==
    /\ rpc = "extract"
    /\ \E ex \in {ExtractCall} :
          /\ ex.raised
          /\ error' = ex.exc
    /\ rpc' = "extract raised"
    /\ UNCHANGED <<node, node0, segs, rm, list_references, output_map,
                   expandVars, valVars, sandboxVars, auxVars>>

NextExtract == ExtractReturn \/ ExtractRaise

SpecExtract == InitExtract /\ [][NextExtract]_vars

\* -------------------------------------------------------------------------
\* C21
\* -------------------------------------------------------------------------
\* the list the output has under a
ListUnderA == output_map.m[NameA].m[KeyA].l

\* C21: the path a[*] against an output whose a is a list of n >= 1 elements
\* gives the list of those n elements, in order.
C21_WildcardGivesList ==
    (rpc # "extract" /\ rm.path = PathAWildcard /\ Len(ListUnderA) >= 1) =>
        /\ rpc = "extracted"
        /\ ref_value.v = ListV(ListUnderA)


\* -------------------------------------------------------------------------
\* C22
\* -------------------------------------------------------------------------
NoImports == imports.t = "null" \/ DOMAIN imports.m = {}

\* the document is a list of primitive resources with a name and a type,
\* the names distinct
OnlyPrimitives ==
    /\ yaml_config.t = "doc"
    /\ RootList # <<>>
    /\ \A n \in DOMAIN RootList :
          /\ "name" \in DOMAIN RootList[n] /\ "type" \in DOMAIN RootList[n]
          /\ ~IsTemplate(RootList[n].type)
    /\ ~HasDuplicates(RootList)

\* resource lists a response could be read back as: those of the input and
\* their look-alikes
LookAlikes ==
    {PrimA, PrimBRefS, PrimBRefT, PrimBMalformed,
     [name |-> NameB, type |-> TypeP],
     [name |-> NameB, type |-> TypeP, properties |-> MapV(<<>>)],
     [name |-> NameB, type |-> TypeP, properties |-> None],
     [name |-> NameB, type |-> TypeP, properties |-> MapV(KeyK :> StrV(<<"v">>))]}

PrimitiveLayout(rs) ==
    [resources |-> [n \in DOMAIN rs |-> [name |-> rs[n].name, type |-> rs[n].type]]]

\* yaml.safe_load of the response: the resource lists whose response has
\* this text
Reparsed(text) ==
    {rs \in SeqsUpTo(LookAlikes, MaxRootLen) :
        SafeDump(ResultValue(rs, PrimitiveLayout(rs))) = text}

\* C22: a document of primitive resources only, expanded without imports,
\* outputs true or false, and parsed again gives its own resources as
\* config.resources: same order, every field as it was.
C22_PrimitivesRoundTrip ==
    (pc = "done" /\ OnlyPrimitives /\ NoImports) =>
        /\ Succeeded
        /\ ConfigResources = RootList
        /\ Reparsed(result.value.text) = {RootList}

C22_Witness ==
    /\ Succeeded /\ OnlyPrimitives /\ NoImports
    /\ outputs
    /\ Len(RootList) = 2
    /\ RootList[1] = PrimBMalformed


\* -------------------------------------------------------------------------
\* SpecNoResources: Expand of either driver (src/expandybird/expansion and
\* src/expansion) on a document that has no resources to walk
\* -------------------------------------------------------------------------
EmptyDocuments ==
    {DocV(<<>>),
     DocV([resources |-> None]),
     DocV([resources |-> ListV(<<>>)]),
     DocV([outputs |-> <<OutS(StrV(<<"v">>))>>]),
     DocV([resources |-> ListV(<<>>), outputs |-> <<OutS(StrV(BuildReference(NameA, PathS)))>>]),
     DocV([resources |-> None, outputs |-> <<>>]),
     None, StrV(<<"x">>), ListV(<<>>), ListV(<<StrV(<<"x">>)>>), [t |-> "scanner_error"]}

EmptyImports ==
    {None, MapV(<<>>),
     MapV(TypeT :> Entry(TypeT, Renders(DocLeaf(StrV(<<"v">>))))),
     MapV(TypeT :> LegacyEntry(Renders(DocLeaf(StrV(<<"v">>)))))}

InitNoResources ==
    /\ RefIdle
    /\ ValIdle
    /\ SandboxIdle
    /\ ref_value = NoValue
    /\ invocations = <<>>
    /\ TemplateIdle
    /\ PermuteIdle
    /\ driver \in {"expandybird", "expansion"}
    /\ error = None
    /\ pc = "start"
    /\ yaml_config \in EmptyDocuments
    /\ imports \in EmptyImports
    /\ outputs \in BOOLEAN
    /\ validate_schema = FALSE
    /\ stack = <<>>
    /\ result = NoResult

\* src/expansion/expansion.py, _Expand up to its loop: "if not yaml_config:
\* return ''"; 'resources' not in a list, and then the list is indexed
ExpansionParsed(cfg) ==
    CASE cfg.t = "scanner_error" ->
           [k |-> "raise",
            exc |-> [type |-> "Exception", message |-> Msg("Error parsing YAML")]]
      [] cfg.t = "null" -> [k |-> "return", v |-> StrV(<<>>)]
      [] cfg.t = "str" -> [k |-> "return", v |-> IF cfg.s = <<>> THEN StrV(<<>>) ELSE cfg]
      [] cfg.t = "list" ->
           IF cfg.l = <<>> THEN [k |-> "return", v |-> StrV(<<>>)]
           ELSE [k |-> "raise",
                 exc |-> [type |-> "TypeError",
                          message |-> Msg("list indices must be integers, not str")]]
      [] OTHER ->
           IF DOMAIN cfg.d = {} THEN [k |-> "return", v |-> StrV(<<>>)]
           ELSE ExpandRoot(RootTarget(cfg.d),
                           ValidateUniqueNames(RootTarget(cfg.d).resources.l, ConfigName))

ExpansionStart(cfg, imps) ==
    IF Redirect(imps) # None THEN [k |-> "raise", exc |-> Redirect(imps)]
    ELSE ExpansionParsed(cfg)

DriverStart ==
    IF driver = "expandybird" THEN ExpandStart(yaml_config, imports)
    ELSE ExpansionStart(yaml_config, imports)

\* the driver returns '' or the string the document is
NoResourcesReturnEarly ==
    /\ pc = "start"
    /\ \E st \in {DriverStart} :
          /\ st.k = "return"
          /\ result' = Returned(st.v)
    /\ pc' = "done"
    /\ UNCHANGED <<inputVars, stack, error, refIdleVars>>

\* the driver raises, and Expand wraps the exception
NoResourcesRaise ==
    /\ pc = "start"
    /\ \E st \in {DriverStart} :
          /\ st.k = "raise"
          /\ error' = st.exc
          /\ result' = ExpandExcept(st.exc)
    /\ pc' = "done"
    /\ UNCHANGED <<inputVars, stack, refIdleVars>>

\* the loop has nothing to do; expandybird calls _ProcessTargetConfig; the
\* result is dumped
NoResourcesDump ==
    /\ pc = "start"
    /\ \E st \in {DriverStart} :
          /\ st.k = "walk"
          /\ \E ptc \in {IF driver = "expandybird"
                         THEN ProcessTargetConfig(st.frame.target, outputs,
                                                  st.frame.config, st.frame.layout)
                         ELSE Ok([config |-> st.frame.config, layout |-> st.frame.layout])} :
                /\ ~ptc.raised
                /\ result' = Returned([t |-> "yaml",
                                       config |-> [resources |-> ptc.v.config],
                                       layout |-> ptc.v.layout,
                                       text |-> SafeDump(ResultValue(ptc.v.config,
                                                                     ptc.v.layout))])
    /\ pc' = "done"
    /\ UNCHANGED <<inputVars, stack, error, refIdleVars>>

NextNoResources == NoResourcesReturnEarly \/ NoResourcesRaise \/ NoResourcesDump

SpecNoResources == InitNoResources /\ [][NextNoResources]_vars

\* -------------------------------------------------------------------------
\* C23
\* -------------------------------------------------------------------------
CanonicalEmpty ==
    KwConfig \o <<":", "\n", " ", " ">> \o KwResources \o <<":", " ", "[", "]", "\n">>
        \o KwLayout \o <<":", "\n", " ", " ">> \o KwResources \o <<":", " ", "[", "]", "\n">>

\* the root is a mapping whose resources are absent, null or an empty list
NoRootResources ==
    /\ yaml_config.t = "doc"
    /\ \/ "resources" \notin DOMAIN yaml_config.d
       \/ yaml_config.d.resources.t = "null"
       \/ yaml_config.d.resources = ListV(<<>>)

\* the text Expand returned
ResponseText == IF result.value.t = "yaml" THEN result.value.text ELSE result.value.s

\* C23: when the root document is a mapping (the empty one included) whose
\* resources are absent, null or an empty list, either driver returns
\* exactly 'config:\n  resources: []\nlayout:\n  resources: []\n'.
C23_CanonicalEmpty ==
    (pc = "done" /\ NoRootResources /\ Redirect(imports) = None) =>
        /\ result.k = "returned"
        /\ ResponseText = CanonicalEmpty


\* -------------------------------------------------------------------------
\* C24
\* -------------------------------------------------------------------------
\* the layout node of the i-th resource of the root list
RootLayoutNode(i) == LayoutResources[i]

\* C24: the layout node of a template resource that has properties carries
\* `properties` equal to that map whatever the template emits, and the
\* layout node of a primitive carries no `properties`.
C24_LayoutProperties ==
    Succeeded =>
        \A i \in 1..Len(RootList) :
            IF IsImported(RootList[i].type)
            THEN "properties" \in DOMAIN RootList[i] =>
                     /\ "properties" \in DOMAIN RootLayoutNode(i)
                     /\ RootLayoutNode(i).properties = RootList[i].properties
            ELSE "properties" \notin DOMAIN RootLayoutNode(i)


\* -------------------------------------------------------------------------
\* SpecConcurrent: two invocations of Expand run in one process at once and
\* share _IMPORTS and sys.modules
\* -------------------------------------------------------------------------
Invocations == {1, 2}

InitConcurrent ==
    /\ ExpandIdle
    /\ RefIdle
    /\ ValIdle
    /\ SandboxIdle
    /\ ref_value = NoValue
    /\ TemplateIdle
    /\ PermuteIdle
    /\ driver = "expansion"
    /\ error = None
    /\ \E a \in SandboxImports :
          \E b \in SandboxImports \ {a} :
              invocations = <<[pc |-> "start", imports |-> a, resolved |-> NoModule],
                              [pc |-> "start", imports |-> b, resolved |-> NoModule]>>

concurrentFrame == <<calls, call_imports, resolved, expandVars, refVars, valVars,
                     ref_value, driver, templateVars, permuteVars>>

\* invocation t reaches FileAccessRedirector.redirect(imports) in _Expand
ConcurrentRedirect(t) ==
    /\ invocations[t].pc = "start"
    /\ _IMPORTS' = Registered(invocations[t].imports, _IMPORTS)
    /\ invocations' = [invocations EXCEPT ![t].pc = "running"]
    /\ UNCHANGED <<sys_modules, concurrentFrame>>

\* template code of invocation t executes "import name", and sys.modules
\* has the name
ConcurrentImportCached(t) ==
    /\ invocations[t].pc = "running"
    /\ \E name \in ModuleNames :
          /\ name \in DOMAIN sys_modules
          /\ invocations' = [invocations EXCEPT ![t].pc = "imported",
                                                ![t].resolved = sys_modules[name]]
    /\ UNCHANGED <<_IMPORTS, sys_modules, concurrentFrame>>

\* ... the loader of AllowedImportsHandler runs the content _IMPORTS has
ConcurrentImportLoad(t) ==
    /\ invocations[t].pc = "running"
    /\ \E name \in ModuleNames :
          /\ name \notin DOMAIN sys_modules
          /\ name \in DOMAIN _IMPORTS
          /\ invocations' = [invocations EXCEPT
                                ![t].pc = "imported",
                                ![t].resolved = LoadModule(name, _IMPORTS[name])]
          /\ sys_modules' = (name :> LoadModule(name, _IMPORTS[name])) @@ sys_modules
    /\ UNCHANGED <<_IMPORTS, concurrentFrame>>

\* ... no finder knows the name
ConcurrentImportError(t) ==
    /\ invocations[t].pc = "running"
    /\ \E name \in ModuleNames :
          /\ name \notin DOMAIN sys_modules
          /\ name \notin DOMAIN _IMPORTS
          /\ invocations' = [invocations EXCEPT ![t].pc = "imported",
                                                ![t].resolved = ImportError(name)]
    /\ UNCHANGED <<_IMPORTS, sys_modules, concurrentFrame>>

\* invocation t returns; neither _IMPORTS nor sys.modules is restored
ConcurrentReturn(t) ==
    /\ invocations[t].pc \in {"running", "imported"}
    /\ invocations' = [invocations EXCEPT ![t].pc = "done"]
    /\ UNCHANGED <<_IMPORTS, sys_modules, concurrentFrame>>

NextConcurrent ==
    \E t \in Invocations :
        \/ ConcurrentRedirect(t)
        \/ ConcurrentImportCached(t)
        \/ ConcurrentImportLoad(t)
        \/ ConcurrentImportError(t)
        \/ ConcurrentReturn(t)

SpecConcurrent == InitConcurrent /\ [][NextConcurrent]_vars

\* -------------------------------------------------------------------------
\* C25
\* -------------------------------------------------------------------------
\* the registry the imports of invocation t give by themselves
OwnRegistryOf(t) == Registered(invocations[t].imports, <<>>)

Other(t) == 3 - t

\* invocation t resolved a module its own imports do not give
ResolvedForeign(t) ==
    /\ invocations[t].resolved.k = "module"
    /\ \/ invocations[t].resolved.name \notin DOMAIN OwnRegistryOf(t)
       \/ invocations[t].resolved.content # OwnRegistryOf(t)[invocations[t].resolved.name]

\* ... and the imports of invocation t give it, under that name
ResolvedFrom(t, u) ==
    /\ invocations[t].resolved.k = "module"
    /\ invocations[t].resolved.name \in DOMAIN OwnRegistryOf(u)
    /\ invocations[t].resolved.content = OwnRegistryOf(u)[invocations[t].resolved.name]

\* C25: two invocations of Expand with different import sets that interleave
\* in one process are not isolated: the module (name or content) an
\* invocation resolves that its own imports do not give is one of the import
\* set the other invocation installed in the process-wide registry.
C25_ForeignFromOther ==
    \A t \in Invocations :
        ResolvedForeign(t) =>
            /\ invocations[Other(t)].pc # "start"
            /\ ResolvedFrom(t, Other(t))

\* both invocations are under way, and the first resolved a module of the
\* second's import set
C25_Witness ==
    /\ invocations # <<>>
    /\ invocations[1].pc = "imported"
    /\ invocations[2].pc \in {"running", "imported"}
    /\ ResolvedForeign(1)
    /\ ResolvedFrom(1, 2)



\* -------------------------------------------------------------------------
\* C26
\* -------------------------------------------------------------------------
\* the outputs of all the templates of the root list
SiblingOutputs == MapV(BuildOutputMapFn(LayoutResources))

\* the i-th resource of the root list is a primitive
RootPrimitive(i) == "type" \in DOMAIN RootList[i] /\ ~IsImported(RootList[i].type)

\* the resources of the config with the name and type of r
ConfigOf(config, r) ==
    {j \in 1..Len(config) : config[j].name = r.name /\ config[j].type = r.type}

\* while the loop of _Expand runs, the primitives of the root list are in
\* the config as they were written
VerbatimInLoop ==
    (pc = "walk" /\ stack # <<>>) =>
        \A i \in 1..Len(RootList) :
            (i < stack[1].i /\ RootPrimitive(i)) =>
                /\ ConfigOf(stack[1].config, RootList[i]) # {}
                /\ \A j \in ConfigOf(stack[1].config, RootList[i]) :
                       stack[1].config[j] = RootList[i]

\* afterwards their properties are those the outputs of all the sibling
\* templates give, wherever in the list the primitive stands
SubstitutedFromAll ==
    (Succeeded /\ outputs /\ ~OutputMapFalsy(SiblingOutputs)) =>
        \A i \in 1..Len(RootList) :
            (RootPrimitive(i) /\ "properties" \in DOMAIN RootList[i]) =>
                /\ ~PopulateReferences(RootList[i].properties, SiblingOutputs).raised
                /\ ConfigOf(ConfigResources, RootList[i]) # {}
                /\ \A j \in ConfigOf(ConfigResources, RootList[i]) :
                       ConfigResources[j].properties
                           = PopulateReferences(RootList[i].properties, SiblingOutputs).node

\* C26: within one resource list references are substituted only after
\* every resource of the list has been expanded, with the outputs of all the
\* sibling templates: a reference of an earlier sibling to an output of a
\* later one is substituted like one of a later sibling to an earlier one.
C26_SubstitutionAfterExpansion == VerbatimInLoop /\ SubstitutedFromAll

\* the primitive b stands before the template a whose output s it refers to,
\* and has the value of s
C26_Witness ==
    /\ Succeeded
    /\ outputs
    /\ RootList = <<PrimBRefS, TmplA>>
    /\ ConfigResources[1].properties = MapV(KeyK :> StrV(<<"v">>))


\* -------------------------------------------------------------------------
\* SpecTemplate: one call ExpandTemplate(resource, imports, env,
\* validate_schema), step by step: the schema, then the renderer
\* -------------------------------------------------------------------------
TemplateEntries ==
    {LegacyEntry(Renders(DocLeaf(StrV(<<"v">>)))),
     Entry(TypeT, Renders(DocLeaf(StrV(<<"v">>)))),
     Entry(TypeT, [k |-> "raises"])}

TemplateSchemas ==
    {SchemaFile(sch) : sch \in Schemas}
        \cup {LegacyEntry([k |-> "null"]),
              Entry(SchemaName(TypeT), [k |-> "schema", schema |-> SchemaDefaults])}

TemplateImports ==
    {MapV(TypeT :> te) : te \in TemplateEntries}
        \cup {MapV((TypeT :> te) @@ (SchemaName(TypeT) :> se)) :
                  te \in TemplateEntries, se \in TemplateSchemas}
        \cup {MapV(<<>>)}

TemplateResources ==
    {TmplA} \cup {[name |-> NameA, type |-> TypeT, properties |-> p] :
                      p \in ValidateInputs \ {None}}

InitTemplate ==
    /\ RefIdle
    /\ SandboxIdle
    /\ ref_value = NoValue
    /\ driver = "expandybird"
    /\ invocations = <<>>
    /\ error = None
    /\ pc = "template"
    /\ yaml_config = None
    /\ imports \in TemplateImports
    /\ outputs = TRUE
    /\ validate_schema \in BOOLEAN
    /\ stack = <<>>
    /\ result = NoResult
    /\ PermuteIdle
    /\ params \in TemplateResources
    /\ evaluation_context = NoValue
    /\ vpc = "idle"
    /\ user_properties = None
    /\ properties0 = (IF "properties" \in DOMAIN params THEN params.properties ELSE None)
    /\ errors = {}
    /\ order = <<>>

templateFrame == <<yaml_config, imports, outputs, validate_schema, stack,
                   rpc, node, node0, segs, rm, list_references, output_map,
                   valVars, sandboxVars, ref_value, driver, invocations, permuteVars>>

\* "schema = source_file + '.schema'; if validate_schema and schema in imports"
SchemaApplies(resource, imps, validate) ==
    validate /\ SchemaName(resource.type) \in DOMAIN imps.m

\* "properties = resource['properties'] if 'properties' in resource else {}"
PropertiesOf(resource) ==
    IF "properties" \in DOMAIN resource THEN resource.properties ELSE MapV(<<>>)

\* A resource that keeps the properties it came with.
WithPropertiesKept(resource, properties) == resource

\* "resource['properties'] = schema_validation.Validate(...)"
WithProperties(resource, properties) ==
    [name |-> resource.name, type |-> resource.type, properties |-> properties]

\* PythonEvaluationContext(params), and what template.render(resource) shows
EvaluationContext(resource) ==
    [properties |-> IF "properties" \in DOMAIN resource THEN resource.properties ELSE None]

\* the path ExpandTemplate dispatches on has a renderer
HasRenderer(path) ==
    EndsWith(path, <<"j", "i", "n", "j", "a">>) \/ EndsWith(path, <<"y", "a", "m", "l">>)
        \/ EndsWith(path, <<"p", "y">>)

TemplatePath(resource, entry) ==
    IF entry.dict /\ entry.path # <<>> THEN entry.path ELSE resource.type

\* the source file is not among the imports
TemplateNotFound ==
    /\ pc = "template"
    /\ params.type \notin DOMAIN imports.m
    /\ error' = ExpansionError(OfChars(params.type),
                               Msg("Unable to find source file in imports."))
    /\ pc' = "template raised"
    /\ UNCHANGED <<result, params, evaluation_context, templateFrame>>

\* no schema is to be applied
TemplateNoSchema ==
    /\ pc = "template"
    /\ params.type \in DOMAIN imports.m
    /\ ~SchemaApplies(params, imports, validate_schema)
    /\ pc' = "render"
    /\ UNCHANGED <<result, error, params, evaluation_context, templateFrame>>

\* Validate returns the properties, which take the place of the resource's
TemplateValidate ==
    /\ pc = "template"
    /\ params.type \in DOMAIN imports.m
    /\ SchemaApplies(params, imports, validate_schema)
    /\ \E va \in {Validate(PropertiesOf(params), SchemaName(params.type),
                           params.type, imports)} :
          /\ ~va.raised
          /\ params' = WithProperties(params, va.v)
    /\ pc' = "render"
    /\ UNCHANGED <<result, error, evaluation_context, templateFrame>>

\* Validate raises: ValidationErrors becomes an ExpansionError, anything
\* else goes up as it is
TemplateValidateRaise ==
    /\ pc = "template"
    /\ params.type \in DOMAIN imports.m
    /\ SchemaApplies(params, imports, validate_schema)
    /\ \E va \in {Validate(PropertiesOf(params), SchemaName(params.type),
                           params.type, imports)} :
          /\ va.raised
          /\ error' = (IF va.exc.type = "ValidationErrors"
                       THEN ExpansionError(OfChars(params.name), va.exc.message)
                       ELSE va.exc)
    /\ pc' = "template raised"
    /\ UNCHANGED <<result, params, evaluation_context, templateFrame>>

\* ExpandJinja or ExpandPython runs the template on the resource, and the
\* text it gives is parsed
TemplateRender ==
    /\ pc = "render"
    /\ \E r \in {ExpandDispatch(params,
                                TemplatePath(params, imports.m[params.type]),
                                imports.m[params.type].content)} :
          /\ ~r.raised
          /\ result' = Returned(r.v)
    /\ evaluation_context' = EvaluationContext(params)
    /\ pc' = "rendered"
    /\ UNCHANGED <<error, params, templateFrame>>

\* ... or the template code raises
TemplateRenderRaise ==
    /\ pc = "render"
    /\ \E r \in {ExpandDispatch(params,
                                TemplatePath(params, imports.m[params.type]),
                                imports.m[params.type].content)} :
          /\ r.raised
          /\ error' = r.exc
    /\ evaluation_context' =
           (IF HasRenderer(TemplatePath(params, imports.m[params.type]))
            THEN EvaluationContext(params) ELSE evaluation_context)
    /\ pc' = "render raised"
    /\ UNCHANGED <<result, params, templateFrame>>

NextTemplate ==
    \/ TemplateNotFound
    \/ TemplateNoSchema
    \/ TemplateValidate
    \/ TemplateValidateRaise
    \/ TemplateRender
    \/ TemplateRenderRaise

SpecTemplate == InitTemplate /\ [][NextTemplate]_vars

\* -------------------------------------------------------------------------
\* C27
\* -------------------------------------------------------------------------
\* the resource ExpandTemplate was called on
Resource0 ==
    IF properties0 = None THEN [name |-> params.name, type |-> params.type]
    ELSE [name |-> params.name, type |-> params.type, properties |-> properties0]

\* what Validate gives for it
Validated0 ==
    Validate(PropertiesOf(Resource0), SchemaName(params.type), params.type, imports)

\* the template code ran
Rendered == evaluation_context # NoValue

DeclaredOutputs(type) ==
    IF imports.m[type].content.k = "doc" /\ "outputs" \in DOMAIN imports.m[type].content.doc
    THEN imports.m[type].content.doc.outputs
    ELSE <<>>

\* the names of the templates of the root list that declare outputs
TemplatesWithOutputs ==
    {RootList[i].name : i \in {j \in 1..Len(RootList) :
                                   /\ IsImported(RootList[j].type)
                                   /\ DeclaredOutputs(RootList[j].type) # <<>>}}

\* the keys of the output map _ProcessTargetConfig builds for the root list
RootOutputKeys == DOMAIN BuildOutputMap(LayoutResources).m

\* the outputs the root document declares
RootOutputs == IF "outputs" \in DOMAIN yaml_config.d THEN yaml_config.d.outputs ELSE <<>>

\* a root output whose value is the reference $(ref.name.s)
RefersTo(k, name) == RootOutputs[k] = OutS(StrV(BuildReference(name, PathS)))

\* C28: the output map of a resource list has as keys exactly the templates
\* directly in the list that declare outputs, and only when outputs are
\* asked for; a name deeper in the tree or of a primitive is no key, and a
\* reference to it is left as it is.
C28_OutputMapKeys ==
    Succeeded =>
        /\ RootOutputKeys = (IF outputs THEN TemplatesWithOutputs ELSE {})
        /\ \A k \in 1..Len(RootOutputs) :
               \A name \in {NameA, NameB} \ RootOutputKeys :
                   (outputs /\ RefersTo(k, name)) =>
                       result.value.layout.outputs[k] = RootOutputs[k]

\* the template a of the root list declares outputs, the template b below a
\* does too, and the reference of the root document to b.s stayed
C28_Witness ==
    /\ Succeeded
    /\ outputs
    /\ RootOutputKeys = {NameA}
    /\ Len(LayoutResources) = 1
    /\ "resources" \in DOMAIN LayoutResources[1]
    /\ \E n \in 1..Len(LayoutResources[1].resources) :
          /\ LayoutResources[1].resources[n].name = NameB
          /\ "outputs" \in DOMAIN LayoutResources[1].resources[n]
    /\ Len(RootOutputs) = 1
    /\ RefersTo(1, NameB)
    /\ result.value.layout.outputs[1] = RootOutputs[1]


\* -------------------------------------------------------------------------
\* SpecPermute: PopulateReferences on a string of two references and on the
\* string that has them in the other order
\* -------------------------------------------------------------------------
Comma == <<",">>

PermuteRefs == {Ref(n, p) : n \in {NameA, NameB, NameZ}, p \in {PathS, PathT}}

InitPermute ==
    /\ ExpandIdle
    /\ ValIdle
    /\ SandboxIdle
    /\ ref_value = NoValue
    /\ driver = "expandybird"
    /\ invocations = <<>>
    /\ TemplateIdle
    /\ \E r1 \in PermuteRefs, r2 \in PermuteRefs :
          segs = <<r1, Text(Comma), r2>>
    /\ node0 = StrV(Spell(segs))
    /\ node = node0
    /\ permuted = StrV(Spell(<<segs[3], segs[2], segs[1]>>))
    /\ rm = ReferenceMatcher(<<>>)
    /\ list_references = None
    /\ output_map \in PopulateOutputMaps
    /\ rpc = "ready"
    /\ error = None

permuteFrame == <<segs, node0, rm, list_references, output_map, expandVars, valVars,
                  sandboxVars, ref_value, driver, invocations, templateVars>>

\* PopulateReferences(node, output_map) returns
PermuteGiven ==
    /\ rpc = "ready"
    /\ \E r \in {PopulateReferences(node, output_map)} :
          /\ ~r.raised
          /\ node' = r.node
    /\ rpc' = "populated"
    /\ UNCHANGED <<permuted, error, permuteFrame>>

\* ... or raises
PermuteGivenRaise ==
    /\ rpc = "ready"
    /\ \E r \in {PopulateReferences(node, output_map)} :
          /\ r.raised
          /\ error' = r.exc
    /\ rpc' = "raised"
    /\ UNCHANGED <<node, permuted, permuteFrame>>

\* PopulateReferences(permuted, output_map) returns
PermuteOther ==
    /\ rpc \in {"populated", "raised"}
    /\ \E r \in {PopulateReferences(permuted, output_map)} :
          /\ ~r.raised
          /\ permuted' = r.node
    /\ rpc' = (IF rpc = "populated" THEN "both populated" ELSE "permuted populated")
    /\ UNCHANGED <<node, error, permuteFrame>>

\* ... or raises
PermuteOtherRaise ==
    /\ rpc \in {"populated", "raised"}
    /\ \E r \in {PopulateReferences(permuted, output_map)} :
          /\ r.raised
          /\ error' = r.exc
    /\ rpc' = (IF rpc = "populated" THEN "permuted raised" ELSE "both raised")
    /\ UNCHANGED <<node, permuted, permuteFrame>>

NextPermute == PermuteGiven \/ PermuteGivenRaise \/ PermuteOther \/ PermuteOtherRaise

SpecPermute == InitPermute /\ [][NextPermute]_vars

\* -------------------------------------------------------------------------
\* C29
\* -------------------------------------------------------------------------
\* where the comma of a string is (substituted values have none)
CommaAt(chars) == MinOrZero({j \in 1..Len(chars) : chars[j] = ","})

BeforeComma(chars) == SubSeq(chars, 1, CommaAt(chars) - 1)
AfterComma(chars) == SubSeq(chars, CommaAt(chars) + 1, Len(chars))

\* C29: substitution does not depend on the order of the references: the
\* string with its two references exchanged comes out with the two
\* substituted values exchanged, also when a value has the shape of a
\* reference, and one order raises only if the other does.
C29_OrderIndependent ==
    /\ rpc = "both populated" =>
          /\ BeforeComma(permuted.s) = AfterComma(node.s)
          /\ AfterComma(permuted.s) = BeforeComma(node.s)
    /\ rpc \notin {"permuted raised", "permuted populated"}


\* -------------------------------------------------------------------------
\* SpecTerminate: Expand, or the scan of one string, run to their end: the
\* interpreter always takes the next step
\* -------------------------------------------------------------------------
InitTerminate ==
    /\ pc = "unstarted"
    /\ yaml_config = None
    /\ imports = None
    /\ outputs = TRUE
    /\ validate_schema = FALSE
    /\ stack = <<>>
    /\ result = NoResult
    /\ RefIdle
    /\ ValIdle
    /\ SandboxIdle
    /\ AuxIdle
    /\ error = None

\* the caller calls Expand on arguments of its choice: a state of Init
TerminateCallExpand ==
    /\ pc = "unstarted"
    /\ pc' = "start"
    /\ yaml_config' \in RootConfigs
    /\ \E imps \in ImportMaps :
          /\ imports' = imps
          /\ validate_schema' \in
                 (IF imps.t = "map" /\ SchemaName(TypeT) \in DOMAIN imps.m
                  THEN BOOLEAN ELSE {FALSE})
    /\ outputs' \in BOOLEAN
    /\ UNCHANGED <<stack, result, error, refIdleVars>>

\* ... or _TraverseNode on a string of its choice: a state of InitRef
TerminateCallTraverse ==
    /\ pc = "unstarted"
    /\ pc' = "idle"
    /\ \E ss \in SeqsUpTo(Segments, MaxSegs) :
          /\ segs' = ss
          /\ node0' = Spell(ss)
          /\ node' = Spell(ss)
          /\ rm' = ReferenceMatcher(Spell(ss))
    /\ list_references' = ListV(<<>>)
    /\ output_map' \in OutputMaps
    /\ rpc' = "scan"
    /\ UNCHANGED <<yaml_config, imports, outputs, validate_schema, stack, result,
                   error, valVars, sandboxVars, auxVars>>

NextTerminate == TerminateCallExpand \/ TerminateCallTraverse \/ Next \/ NextRef

SpecTerminate == InitTerminate /\ [][NextTerminate]_vars /\ WF_vars(NextTerminate)

\* -------------------------------------------------------------------------
\* C30
\* -------------------------------------------------------------------------
\* Expand returned or raised; _TraverseNode returned or its exception left
\* Expand
Terminated == pc = "done" \/ rpc \in {"returned", "failed"}

\* what the scan of _TraverseNode has left to do: the content FindReference
\* has not gone over, and the way out
ScanMeasure ==
    CASE rpc = "scan" -> Len(rm.content) + 2
      [] rpc = "raised" -> 1
      [] OTHER -> 0

\* what the walk has left to do, the frames of the stack from the root on as
\* the digits of a number: the resources a frame has not processed, and the
\* most a list holds plus one at the depths no frame is at
LevelBase == MaxRootLen + 2
Levels == MaxDepth + 2

RECURSIVE Power(_, _)
Power(b, n) == IF n = 0 THEN 1 ELSE b * Power(b, n - 1)

PendingCount(frame) == Len(frame.target.resources.l) + 1 - frame.i

LevelDigit(l) == IF l <= Len(stack) THEN PendingCount(stack[l]) ELSE LevelBase - 1

RECURSIVE WalkMeasureFrom(_)
WalkMeasureFrom(l) ==
    IF l > Levels THEN 0
    ELSE LevelDigit(l) * Power(LevelBase, Levels - l) + WalkMeasureFrom(l + 1)

PhaseRank ==
    CASE pc = "unstarted" -> 4
      [] pc = "start" -> 3
      [] pc = "walk" -> 2
      [] pc = "raising" -> 1
      [] OTHER -> 0

\* a natural number
Measure ==
    IF pc = "idle" THEN ScanMeasure
    ELSE PhaseRank * Power(LevelBase, Levels) + WalkMeasureFrom(1)

MeasureInRange ==
    /\ Len(stack) <= Levels
    /\ \A l \in 1..Len(stack) : PendingCount(stack[l]) \in 0..(LevelBase - 2)

\* a step leaves less to do
Decreases == MeasureInRange /\ MeasureInRange' /\ Measure' < Measure

\* the walk was ended by the interpreter, not by a primitive
RecursionExceeded == error # None /\ error.type = "RuntimeError"

\* the templates of the imports emit each other
MutualImports ==
    /\ imports.t = "map"
    /\ DOMAIN imports.m = {TypeT, TypeU}
    /\ imports.m[TypeT].content = Renders(DocOther)
    /\ imports.m[TypeU].content = Renders(DocSelf)

\* C30 (amended): Expand terminates, with a result or an exception, for
\* every configuration and imports: every step of the walk and every pass of
\* the reference scan leaves less to do, by a measure that is a natural
\* number. A chain of templates that never comes to a primitive is ended by
\* the recursion limit of the interpreter, whose error Expand raises.
C30_Terminates == [][Decreases]_vars

\* Expand ended on templates that emit each other
C30_Witness ==
    /\ pc = "done"
    /\ MutualImports
    /\ RecursionExceeded
    /\ result.k = "raised"

\* C30: the walk of the resources comes to a primitive on every branch, also
\* when a template emits a resource of its own type or two templates emit
\* each other: it is never the recursion limit that ends it.
C30_WalkReachesPrimitives == pc = "done" => ~RecursionExceeded

=============================================================================
